---- MODULE Spec2Model ----
(***************************************************************************)
(* A model of the block assembler (lib/mining/miner.js), of the            *)
(* transaction rules it relies on (lib/primitives/tx.js) and of the chain  *)
(* state machine it talks to.                                              *)
(***************************************************************************)
EXTENDS Integers, Sequences, FiniteSets, TLC

VARIABLES
  mempool,      \* mempool.map: hash -> entry (the entries assemble iterates over)
  hasMempool,   \* whether options.mempool is set on the miner
  options,      \* MinerOptions: maxSize, maxSigops, minSize, prioritySize, ...
  magnetic,     \* state.hasMagneticAnomaly() of the state assemble was called with
  attempt,      \* the BlockTemplate: items, size, sigops, fees, refreshed
  commitLog,    \* history: the hashes assemble pushed, in the order pushed
  outcome,      \* "none" before assemble ran, then "ok" or "assert"
  chainTip,     \* chain.tip: the entry (hash and height) of the best block
  mempoolTip,   \* mempool.tip: the hash of the block the mempool is synced to
  pc,           \* where each createBlock call and the chain's writer stand
  locker,       \* chain.locker: busy flag, queued jobs, and who holds it
  jobs,         \* per createBlock call: tip read, template, results
  chain,        \* the chain: stored entries, main chain, UTXO set, undo data
  received,     \* how many candidate blocks chain.add was given
  emitted,      \* the events the last chain.add emitted, in order
  listener,     \* a listener applying connect/disconnect as they arrive
  lastOp,       \* what the last chain.add did, and the state it started from
  pushed,       \* history: the hashes a job pushed into its template, in order
  loop,         \* an assemble call in progress: its heap, depMap and counters
  thisAddr,     \* an Address object: its type and its hash
  thisTx,       \* a TX object: its fields, its mutable flag and its caches
  thisBlock,    \* a Block object: header fields and transactions
  args,         \* the arguments of the last call made on tx, block or consensus
  ret           \* what that call returned

minerVars == <<mempool, hasMempool, options, magnetic, attempt, commitLog, outcome>>
lockVars == <<pc, locker, jobs>>
tipVars == <<chainTip, mempoolTip>>

chainVars == <<chain, received, emitted, listener, lastOp>>

\* The objects single calls are made on, and the job's history with them.
unitVars == <<thisTx, thisBlock, args, ret>>
jobVars == <<pushed, loop, thisAddr, unitVars>>

vars == <<minerVars, tipVars, lockVars, chainVars, jobVars>>

(***************************************************************************)
(* Bounds of the model.                                                    *)
(***************************************************************************)
MaxTx == 3
MaxHeight == 2
MaxBlocks == 3
\* The entries of the mempool of an assemble call followed step by step.
MaxPool == 2

\* Value domains the inputs are drawn from.
InputCounts == {1, 2}

\* No assemble call is being followed step by step.
NoLoop == << >>

\* No Address object is being looked at.
NoAddress == << >>

(***************************************************************************)
(* Program constants.                                                      *)
(***************************************************************************)
LOCKTIME_THRESHOLD == 500000000
MAX_FORK_BLOCK_SIZE == 32000000
COINBASE_MATURITY == 100
\* Amounts are counted in whole coins (COIN = 1e8 base units in the source).
MAX_MONEY == 21000000
\* 0xffffffff in the source; sequence numbers are narrowed to 16 bits here
\* (only equality with the all-ones value is ever tested).
SEQUENCE_FINAL == 65535

(***************************************************************************)
(* Hashes and txids.  A hash is a little-endian byte string; the txid is   *)
(* the hex string of the reversed hash, and hex strings of equal length    *)
(* compare as their byte strings do.                                       *)
(***************************************************************************)
HashOf(i) == <<i % 2, i \div 2>>

TxNums == 1..MaxTx
TxHashes == {HashOf(i) : i \in TxNums}
\* A prevout hash of a confirmed transaction (never a mempool entry).
ExtHash == HashOf(0)

revHex(h) == [k \in 1..Len(h) |-> h[Len(h) + 1 - k]]

txid(h) == revHex(h)

RECURSIVE StrLess(_, _)
StrLess(a, b) ==
  IF Len(a) = 0 THEN Len(b) > 0
  ELSE IF Len(b) = 0 THEN FALSE
  ELSE IF Head(a) # Head(b) THEN Head(a) < Head(b)
  ELSE StrLess(Tail(a), Tail(b))

(***************************************************************************)
(* TX.isFinal(height, time) of a transaction with the given locktime and   *)
(* input sequence numbers.                                                 *)
(***************************************************************************)
isFinal(tx, height, time) ==
  IF tx.locktime = 0 THEN TRUE
  ELSE IF tx.locktime < (IF tx.locktime < LOCKTIME_THRESHOLD THEN height ELSE time)
    THEN TRUE
  ELSE \A k \in 1..Len(tx.inputs) : tx.inputs[k].sequence = SEQUENCE_FINAL

(***************************************************************************)
(* Mempool entries.  BlockEntry.fromEntry copies the entry's fee, rate,    *)
(* priority, free flag, sigops and descendant rate into the item; the      *)
(* item's tx carries the inputs, the locktime and the size.                *)
(***************************************************************************)
Profile(lt, sq, sz, so, fe, ra, dr, pr, fr) ==
  [locktime |-> lt, sequence |-> sq, size |-> sz, sigops |-> so, fee |-> fe,
   rate |-> ra, descRate |-> dr, priority |-> pr, free |-> fr]

\* The kinds of entry the model's mempool is filled with:
\*   a plain entry;
\*   a large entry of low priority whose descendants pay for it;
\*   an entry that is not final yet (a height locktime, a non-final sequence);
\*   a free entry heavy in sigops, final only by its sequence numbers.
Profiles ==
  { Profile(0, SEQUENCE_FINAL, 1, 1, 2, 2, 0, 2, FALSE),
    Profile(0, 0,              2, 0, 2, 1, 3, 0, FALSE),
    Profile(5, 0,              1, 0, 2, 2, 0, 2, FALSE),
    Profile(5, SEQUENCE_FINAL, 1, 2, 0, 0, 0, 1, TRUE) }

\* The entry of a transaction with hash h, prevout hashes prevs and profile p.
Entry(h, prevs, p) ==
  [hash |-> h,
   inputs |-> [k \in 1..Len(prevs) |-> [prevout |-> prevs[k], sequence |-> p.sequence]],
   locktime |-> p.locktime, size |-> p.size, sigops |-> p.sigops, fee |-> p.fee,
   rate |-> p.rate, descRate |-> p.descRate, priority |-> p.priority,
   free |-> p.free]

\* Prevout lists of a new mempool transaction: up to two inputs that spend
\* outputs of pool entries (listed in hash order; assemble does not look at
\* the order), or else a single input that spends a confirmed output.
PrevoutLists(pool) ==
  { l \in UNION { [1..n -> DOMAIN pool] : n \in InputCounts } :
      \A k \in 1..(Len(l) - 1) : ~StrLess(l[k + 1], l[k]) }
  \cup { <<ExtHash>> }

\* The options a miner of the model is configured with.
OptionSets ==
  [maxSize : {4}, maxSigops : {3}, minSize : {3}, prioritySize : {0, 3},
   priorityThreshold : {1}, reservedSize : {1}, reservedSigops : {1},
   preverify : {FALSE}]

\* new BlockTemplate({height, locktime, size: reservedSize, sigops: reservedSigops})
NewTemplate(opts, height, locktime) ==
  [height |-> height, locktime |-> locktime, size |-> opts.reservedSize,
   sigops |-> opts.reservedSigops, fees |-> 0, items |-> <<>>,
   refreshed |-> FALSE]

(***************************************************************************)
(* The heap's comparators.  Heap.shift() returns an element that no other  *)
(* element precedes under the comparator in force; among equals the heap   *)
(* may return any.                                                         *)
(***************************************************************************)
cmpRate(a, b) ==
  LET x == IF a.descRate > a.rate THEN a.descRate ELSE a.rate
      y == IF b.descRate > b.rate THEN b.descRate ELSE b.rate
  IN IF x = y THEN b.priority - a.priority ELSE y - x

cmpPriority(a, b) ==
  IF a.priority = b.priority THEN cmpRate(a, b) ELSE b.priority - a.priority

RemoveAt(s, i) == [k \in 1..(Len(s) - 1) |-> IF k < i THEN s[k] ELSE s[k + 1]]

\* The positions of the queue that shift() may return.
ShiftChoices(pool, st) ==
  { i \in 1..Len(st.queue) :
      \A j \in 1..Len(st.queue) :
        IF st.priority
          THEN cmpPriority(pool[st.queue[i]], pool[st.queue[j]]) <= 0
          ELSE cmpRate(pool[st.queue[i]], pool[st.queue[j]]) <= 0 }

(***************************************************************************)
(* Miner.assemble, mempool attached.                                       *)
(***************************************************************************)
\* The positions k of tx's inputs whose prevout hash is a mempool entry.
PoolInputs(pool, e) ==
  { k \in 1..Len(e.inputs) : e.inputs[k].prevout \in DOMAIN pool }

\* The dependency graph: depCount of every item, the items registered under
\* each parent hash (once per input that spends it), and the heap seeded
\* with the items that depend on no mempool entry.  `order` is the order in
\* which mempool.map.values() yields the entries.
RECURSIVE Registered(_, _, _)
Registered(order, pool, parent) ==
  IF Len(order) = 0 THEN <<>>
  ELSE LET e == pool[Head(order)]
           n == Cardinality({k \in PoolInputs(pool, e) : e.inputs[k].prevout = parent})
       IN [k \in 1..n |-> e.hash] \o Registered(Tail(order), pool, parent)

RECURSIVE Roots(_, _)
Roots(order, pool) ==
  IF Len(order) = 0 THEN <<>>
  ELSE (IF PoolInputs(pool, pool[Head(order)]) = {} THEN <<Head(order)>> ELSE <<>>)
       \o Roots(Tail(order), pool)

BuildGraph(order, pool, opts, att) ==
  [depCount |-> [h \in DOMAIN pool |-> Cardinality(PoolInputs(pool, pool[h]))],
   depMap   |-> [h \in DOMAIN pool |-> Registered(order, pool, h)],
   queue    |-> Roots(order, pool),
   priority |-> opts.prioritySize > 0,
   size     |-> att.size,
   sigops   |-> att.sigops,
   fees     |-> att.fees,
   items    |-> att.items,
   log      |-> <<>>]

\* (mutant) a descendant is queued as soon as one of its parents is committed.
RECURSIVE ReleaseEarly(_, _)
ReleaseEarly(st, deps) ==
  IF Len(deps) = 0 THEN st
  ELSE LET d == Head(deps)
           c == st.depCount[d] - 1
           st1 == [st EXCEPT !.depCount[d] = c,
                             !.queue = IF c >= 0 /\ d \notin {@[k] : k \in 1..Len(@)}
                                         THEN Append(@, d) ELSE @]
       IN ReleaseEarly(st1, Tail(deps))

\* (mutant) a descendant is queued at every input of it that is released.
RECURSIVE ReleasePerInput(_, _)
ReleasePerInput(st, deps) ==
  IF Len(deps) = 0 THEN st
  ELSE LET d == Head(deps)
           c == st.depCount[d] - 1
           st1 == [st EXCEPT !.depCount[d] = c, !.queue = Append(@, d)]
       IN ReleasePerInput(st1, Tail(deps))

\* for (const item of deps) if (--item.depCount === 0) queue.insert(item);
RECURSIVE Release(_, _)
Release(st, deps) ==
  IF Len(deps) = 0 THEN st
  ELSE LET d == Head(deps)
           c == st.depCount[d] - 1
           st1 == [st EXCEPT !.depCount[d] = c,
                             !.queue = IF c = 0 THEN Append(@, d) ELSE @]
       IN Release(st1, Tail(deps))

\* (mutant) the fee of a committed item is not credited.
CommitWithoutFee(st, item, size, sigops) ==
  Release([st EXCEPT !.size = size, !.sigops = sigops,
                     !.items = Append(@, item.hash),
                     !.log = Append(@, item.hash)],
          st.depMap[item.hash])

\* The commit of an item: lines 330-343.
Commit(st, item, size, sigops) ==
  Release([st EXCEPT !.size = size, !.sigops = sigops, !.fees = @ + item.fee,
                     !.items = Append(@, item.hash),
                     !.log = Append(@, item.hash)],
          st.depMap[item.hash])

\* (mutant) the size budget is tested before the entry's size is added.
ExceedsSizeBefore(size, opts) == size - 1 > opts.maxSize

\* if (size > this.options.maxSize) continue;
ExceedsSize(size, opts) == size > opts.maxSize

\* (mutant) an entry that takes the sigops exactly to the budget is refused.
ExceedsSigopsAtLimit(sigops, opts) == sigops >= opts.maxSigops

\* if (sigops > this.options.maxSigops) continue;
ExceedsSigops(sigops, opts) == sigops > opts.maxSigops

\* (mutant) the entry that ends the priority phase is put back into the
\* heap, but the phase flag is left set.
LoopBodyKeepsPhase(pool, opts, att, st, i) ==
  LET item   == pool[st.queue[i]]
      st0    == [st EXCEPT !.queue = RemoveAt(@, i)]
      size   == st.size + item.size
      sigops == st.sigops + item.sigops
  IN IF ~isFinal(item, att.height, att.locktime) THEN st0
     ELSE IF ExceedsSize(size, opts) THEN st0
     ELSE IF ExceedsSigops(sigops, opts) THEN st0
     ELSE IF st.priority
       THEN IF size > opts.prioritySize \/ item.priority < opts.priorityThreshold
              THEN [st0 EXCEPT !.queue = Append(@, item.hash)]
              ELSE Commit(st0, item, size, sigops)
       ELSE IF item.free /\ size >= opts.minSize THEN st0
            ELSE Commit(st0, item, size, sigops)

\* One iteration of the selection loop, shift() having returned queue[i].
LoopBody(pool, opts, att, st, i) ==
  LET item   == pool[st.queue[i]]
      st0    == [st EXCEPT !.queue = RemoveAt(@, i)]
      size   == st.size + item.size
      sigops == st.sigops + item.sigops
  IN IF ~isFinal(item, att.height, att.locktime) THEN st0
     ELSE IF ExceedsSize(size, opts) THEN st0
     ELSE IF ExceedsSigops(sigops, opts) THEN st0
     ELSE IF st.priority
       THEN IF size > opts.prioritySize \/ item.priority < opts.priorityThreshold
              THEN [st0 EXCEPT !.priority = FALSE, !.queue = Append(@, item.hash)]
              ELSE Commit(st0, item, size, sigops)
       ELSE IF item.free /\ size >= opts.minSize THEN st0
            ELSE Commit(st0, item, size, sigops)

\* while (queue.size() > 0): every state the loop may end in.
RECURSIVE Drain(_, _, _, _)
Drain(pool, opts, att, st) ==
  IF Len(st.queue) = 0 THEN {st}
  ELSE UNION { Drain(pool, opts, att, LoopBody(pool, opts, att, st, i)) :
                 i \in ShiftChoices(pool, st) }

\* BlockTemplate.sort(): the items in ascending txid order.
RECURSIVE InsertByTxid(_, _)
InsertByTxid(s, h) ==
  IF Len(s) = 0 THEN <<h>>
  ELSE IF StrLess(txid(h), txid(Head(s))) THEN <<h>> \o s
  ELSE <<Head(s)>> \o InsertByTxid(Tail(s), h)

RECURSIVE SortByTxid(_)
SortByTxid(items) ==
  IF Len(items) = 0 THEN <<>>
  ELSE InsertByTxid(SortByTxid(Tail(items)), Head(items))

\* (mutant) the canonical sort is never run.
ShouldSortNever(mag) == FALSE

\* if (state && state.hasMagneticAnomaly()) attempt.sort();
ShouldSort(mag) == mag

\* (mutant) refresh() alone, the template left in the order it was filled.
RefreshOnly(att, mag) == [att EXCEPT !.refreshed = TRUE]

\* The end of assemble: the canonical sort when active, then refresh().
SortAndRefresh(att, mag) ==
  [att EXCEPT !.items = IF ShouldSort(mag) THEN SortByTxid(@) ELSE @,
              !.refreshed = TRUE]

\* (mutant) the tips are not compared.
TipsAgreeAlways(mtip, ctip) == TRUE

\* assert(this.mempool.tip.equals(this.chain.tip.hash), ...)
TipsAgree(mtip, ctip) == mtip = ctip.hash

\* An enumeration of the pool's entries (mempool.map.values()).  The order
\* only decides the order of heap insertions, which shift() does not rely on.
RECURSIVE SeqOf(_)
SeqOf(S) ==
  IF S = {} THEN <<>>
  ELSE LET x == CHOOSE y \in S : TRUE IN <<x>> \o SeqOf(S \ {x})

\* Every result of assemble(attempt, state): the template it leaves, the
\* hashes it committed in commit order, and how it ended.
AssembleOutcomes(pool, has, opts, mag, att, mtip, ctip) ==
  IF ~has
    THEN {[attempt |-> SortAndRefresh(att, mag), log |-> <<>>, outcome |-> "ok"]}
  ELSE IF ~TipsAgree(mtip, ctip)
    THEN {[attempt |-> att, log |-> <<>>, outcome |-> "assert"]}
  ELSE LET st0 == BuildGraph(SeqOf(DOMAIN pool), pool, opts, att)
       IN { LET a == SortAndRefresh([att EXCEPT !.size = st.size,
                                                !.sigops = st.sigops,
                                                !.fees = st.fees,
                                                !.items = st.items], mag)
            IN [attempt |-> a, log |-> st.log,
                outcome |-> IF a.size <= MAX_FORK_BLOCK_SIZE THEN "ok" ELSE "assert"] :
            st \in Drain(pool, opts, att, st0) }

(***************************************************************************)
(* The state machine of one template.                                      *)
(***************************************************************************)
GenesisTip == [hash |-> 0, height |-> 0]

\* network.now() at the time the template is created.
NowTime == LOCKTIME_THRESHOLD + 10

InitMiner ==
  /\ mempool = << >>
  /\ hasMempool \in BOOLEAN
  /\ options \in OptionSets
  /\ magnetic = FALSE
  /\ chainTip = GenesisTip
  /\ mempoolTip = GenesisTip.hash
  /\ attempt = NewTemplate(options, chainTip.height + 1, NowTime)
  /\ commitLog = << >>
  /\ outcome = "none"

\* Nobody calls createBlock and nothing writes to the chain.
InitNoCalls ==
  /\ pc = [p \in {} |-> "idle"]
  /\ locker = [busy |-> FALSE, queue |-> << >>, holder |-> "none"]
  /\ jobs = [p \in {} |-> 0]

\* No single call is made on a transaction, a block or consensus.
InitNoUnit ==
  /\ thisTx = << >>
  /\ thisBlock = << >>
  /\ args = << >>
  /\ ret = << >>

\* No chain is attached to the model of a single template, and no job.
InitNoChain ==
  /\ pushed = << >>
  /\ loop = NoLoop
  /\ thisAddr = NoAddress
  /\ InitNoUnit
  /\ chain = << >>
  /\ received = 0
  /\ emitted = << >>
  /\ listener = << >>
  /\ lastOp = << >>

Init == InitMiner /\ InitNoCalls /\ InitNoChain

\* The mempool accepts a transaction that spends outputs of pool entries or
\* of confirmed transactions.
MempoolAdd ==
  /\ hasMempool
  /\ outcome = "none"
  /\ \E h \in TxHashes \ DOMAIN mempool, p \in Profiles :
       \E prevs \in PrevoutLists(mempool) :
         mempool' = [x \in DOMAIN mempool \cup {h} |->
                       IF x = h THEN Entry(h, prevs, p) ELSE mempool[x]]
  /\ UNCHANGED <<hasMempool, options, magnetic, attempt, commitLog, outcome,
                 tipVars, lockVars, chainVars, jobVars>>

\* BlockTemplate.pushTX(tx): a caller adds a transaction to the template.
PushTX ==
  /\ ~hasMempool
  /\ outcome = "none"
  /\ Len(attempt.items) < MaxTx
  /\ \E h \in TxHashes, p \in Profiles :
       /\ \A k \in 1..Len(attempt.items) : attempt.items[k] # h
       /\ attempt' = [attempt EXCEPT !.items = Append(@, h),
                                     !.size = @ + p.size,
                                     !.sigops = @ + p.sigops,
                                     !.fees = @ + p.fee]
  /\ UNCHANGED <<mempool, hasMempool, options, magnetic, commitLog, outcome,
                 tipVars, lockVars, chainVars, jobVars>>

\* Miner.assemble(attempt, state)
Assemble ==
  /\ outcome = "none"
  /\ \E mag \in BOOLEAN :
       \E r \in AssembleOutcomes(mempool, hasMempool, options, mag, attempt,
                                 mempoolTip, chainTip) :
         /\ magnetic' = mag
         /\ attempt' = r.attempt
         /\ commitLog' = r.log
         /\ outcome' = r.outcome
  /\ UNCHANGED <<mempool, hasMempool, options, tipVars, lockVars, chainVars,
                 jobVars>>

Next == MempoolAdd \/ PushTX \/ Assemble

Spec == Init /\ [][Next]_vars

(***************************************************************************)
(* BlockTemplate.toBlock(): the coinbase followed by the items.            *)
(***************************************************************************)
CoinbaseHash == <<255, 255>>

toBlock(att) == <<CoinbaseHash>> \o att.items

\* The position of hash h in the commit log (0 when it was not committed).
LogIndex(h) ==
  IF \E k \in 1..Len(commitLog) : commitLog[k] = h
    THEN CHOOSE k \in 1..Len(commitLog) : commitLog[k] = h
    ELSE 0

\* The pool entries whose outputs e spends.
PoolParents(e) == { e.inputs[k].prevout : k \in PoolInputs(mempool, e) }

\* The template's size and sigops after the first k commits.
RECURSIVE SizeAfter(_)
SizeAfter(k) ==
  IF k = 0 THEN options.reservedSize
  ELSE SizeAfter(k - 1) + mempool[commitLog[k]].size

RECURSIVE SigopsAfter(_)
SigopsAfter(k) ==
  IF k = 0 THEN options.reservedSigops
  ELSE SigopsAfter(k - 1) + mempool[commitLog[k]].sigops

(***************************************************************************)
(* C1: when magnetic-anomaly is active, after assemble (sort, refresh,     *)
(* toBlock) the non-coinbase transactions of the block are in strictly     *)
(* ascending txid order, whatever the order in which the (distinct)        *)
(* entries were committed or pushed.                                       *)
(***************************************************************************)
C1_CanonicalOrder ==
  (outcome = "ok" /\ magnetic) =>
    LET txs == toBlock(attempt)
    IN \A i \in 3..Len(txs) : StrLess(txid(txs[i - 1]), txid(txs[i]))

\* A child committed after its parent, with a smaller txid: the sort moved
\* it in front of the parent.
C1_Witness ==
  /\ outcome = "ok" /\ magnetic /\ hasMempool
  /\ Len(commitLog) >= 2
  /\ attempt.items # commitLog
  /\ \E h \in DOMAIN mempool : \E q \in PoolParents(mempool[h]) :
       LogIndex(h) > 0 /\ StrLess(txid(h), txid(q))

(***************************************************************************)
(* C2: in the order assemble commits entries (the order of the items when  *)
(* no canonical sort is run), every entry comes after every pool entry it  *)
(* spends from; an entry with an uncommitted parent is never committed.    *)
(***************************************************************************)
C2_ParentsFirst ==
  (outcome = "ok" /\ hasMempool) =>
    /\ \A k \in 1..Len(commitLog) :
         \A q \in PoolParents(mempool[commitLog[k]]) :
           LogIndex(q) > 0 /\ LogIndex(q) < k
    /\ ~magnetic => attempt.items = commitLog

\* An entry that is final and fits the budgets spends from two pool
\* entries; one was committed, the other skipped, and the entry was left out.
C2_Witness ==
  /\ outcome = "ok" /\ hasMempool /\ ~magnetic
  /\ \E h \in DOMAIN mempool :
       /\ LogIndex(h) = 0
       /\ isFinal(mempool[h], attempt.height, attempt.locktime)
       /\ attempt.size + mempool[h].size <= options.maxSize
       /\ attempt.sigops + mempool[h].sigops <= options.maxSigops
       /\ \E q \in PoolParents(mempool[h]) : LogIndex(q) > 0
       /\ \E q \in PoolParents(mempool[h]) : LogIndex(q) = 0

(***************************************************************************)
(* C3: assemble never commits an entry that takes the running size above   *)
(* maxSize or the running sigops above maxSigops, nor an entry that is not *)
(* final at (attempt.height, attempt.locktime); so when at least one entry *)
(* was committed the template ends within both budgets.                    *)
(***************************************************************************)
C3_Budgets ==
  (outcome = "ok" /\ hasMempool) =>
    /\ \A k \in 1..Len(commitLog) :
         /\ SizeAfter(k) <= options.maxSize
         /\ SigopsAfter(k) <= options.maxSigops
         /\ isFinal(mempool[commitLog[k]], attempt.height, attempt.locktime)
    /\ Len(commitLog) > 0 =>
         /\ attempt.size <= options.maxSize
         /\ attempt.sigops <= options.maxSigops
         /\ attempt.size = SizeAfter(Len(commitLog))
         /\ attempt.sigops = SigopsAfter(Len(commitLog))

\* Entries were committed, and three free-standing entries were left out:
\* one for its size, one for its sigops, one because it is not final.
C3_Witness ==
  /\ outcome = "ok" /\ hasMempool
  /\ Len(commitLog) > 0
  /\ \E h \in DOMAIN mempool :
       /\ LogIndex(h) = 0 /\ PoolParents(mempool[h]) = {}
       /\ isFinal(mempool[h], attempt.height, attempt.locktime)
       /\ attempt.size + mempool[h].size > options.maxSize
       /\ attempt.sigops + mempool[h].sigops <= options.maxSigops
       /\ ~mempool[h].free
  /\ \E h \in DOMAIN mempool :
       /\ LogIndex(h) = 0 /\ PoolParents(mempool[h]) = {}
       /\ ~isFinal(mempool[h], attempt.height, attempt.locktime)

(***************************************************************************)
(* Miner.createBlock under the chain lock.                                 *)
(*                                                                         *)
(* Callers run createBlock concurrently with the chain's writer, which     *)
(* takes the same lock to connect a block.  The steps are cut at the       *)
(* awaits of createBlock and _createBlock.                                 *)
(***************************************************************************)
Callers == {"a", "b"}
Writer == "chain"
Procs == Callers \cup {Writer}

\* Lock.lock(): take the lock when it is free, else queue behind the others.
\* `entered` is where the caller stands once it holds the lock.
LockAcquire(p, entered) ==
  IF ~locker.busy
    THEN /\ locker' = [locker EXCEPT !.busy = TRUE, !.holder = p]
         /\ pc' = [pc EXCEPT ![p] = entered]
    ELSE /\ locker' = [locker EXCEPT !.queue = Append(@, <<p, entered>>)]
         /\ pc' = [pc EXCEPT ![p] = "waiting"]

\* unlock(): hand the lock to the first queued job, or mark it free.
\* `left` is where the releasing caller goes.
LockRelease(p, left) ==
  IF Len(locker.queue) = 0
    THEN /\ locker' = [locker EXCEPT !.busy = FALSE, !.holder = "none"]
         /\ pc' = [pc EXCEPT ![p] = left]
    ELSE LET next == Head(locker.queue)
         IN /\ locker' = [locker EXCEPT !.queue = Tail(@), !.holder = next[1]]
            /\ pc' = [pc EXCEPT ![p] = left, ![next[1]] = next[2]]

NoJob == [tip |-> [hash |-> -1, height |-> -1], magnetic |-> FALSE,
          attempt |-> << >>, log |-> << >>, outcome |-> "none",
          seenMempoolTip |-> -1, seenChainTip |-> -1,
          verified |-> "none", result |-> "none"]

\* const unlock = await this.locker.lock();
CreateBlock(p) ==
  /\ pc[p] = "idle"
  /\ LockAcquire(p, "prepare")
  /\ UNCHANGED <<minerVars, tipVars, jobs, chainVars, jobVars>>

\* _createBlock up to its last await: tip = this.chain.tip, the median
\* time, the deployment state and the target are read from the chain.
Prepare(p) ==
  /\ pc[p] = "prepare"
  /\ \E mag \in BOOLEAN :
       jobs' = [jobs EXCEPT ![p] = [@ EXCEPT !.tip = chainTip, !.magnetic = mag]]
  /\ pc' = [pc EXCEPT ![p] = "assemble"]
  /\ UNCHANGED <<minerVars, tipVars, locker, chainVars, jobVars>>

\* new BlockTemplate(...); this.assemble(attempt, state); and, with
\* preverify, the start of chain._verifyBlock(attempt.toBlock()).
AssembleTemplate(p) ==
  /\ pc[p] = "assemble"
  /\ LET att == NewTemplate(options, jobs[p].tip.height + 1, NowTime)
     IN \E r \in AssembleOutcomes(mempool, hasMempool, options, jobs[p].magnetic,
                                  att, mempoolTip, chainTip) :
          /\ jobs' = [jobs EXCEPT ![p] =
               [@ EXCEPT !.attempt = r.attempt, !.log = r.log,
                         !.outcome = r.outcome,
                         !.seenMempoolTip = mempoolTip,
                         !.seenChainTip = chainTip.hash,
                         !.result = IF r.outcome = "assert" THEN "AssertionError"
                                    ELSE IF options.preverify THEN "none"
                                    ELSE "template"]]
          /\ pc' = [pc EXCEPT ![p] =
               IF r.outcome = "ok" /\ options.preverify THEN "verify" ELSE "exit"]
  /\ UNCHANGED <<minerVars, tipVars, locker, chainVars, jobVars>>

\* What chain._verifyBlock(block) may do: accept the block, raise a
\* VerifyError, or fail with another error (the store).
VerifyOutcomes == {"valid", "VerifyError", "Error"}

\* (mutant) a VerifyError is logged and the template returned all the same.
PreverifyResultLogOnly(v) ==
  IF v = "Error" THEN "Error" ELSE "template"

\* try { await this.chain._verifyBlock(block); } catch (e) { ... }
PreverifyResult(v) ==
  IF v = "valid" THEN "template"
  ELSE IF v = "VerifyError" THEN "BUG: Miner created invalid block."
  ELSE v

Preverify(p) ==
  /\ pc[p] = "verify"
  /\ \E v \in VerifyOutcomes :
       jobs' = [jobs EXCEPT ![p] = [@ EXCEPT !.verified = v,
                                             !.result = PreverifyResult(v)]]
  /\ pc' = [pc EXCEPT ![p] = "exit"]
  /\ UNCHANGED <<minerVars, tipVars, locker, chainVars, jobVars>>

\* (mutant) unlock() follows the call instead of sitting in a finally block.
UnlocksOnReturnOnly(res) == res = "template"

\* try { return await this._createBlock(tip, address); } finally { unlock(); }
UnlocksOnExit(res) == TRUE

ExitCreateBlock(p) ==
  /\ pc[p] = "exit"
  /\ IF UnlocksOnExit(jobs[p].result)
       THEN LockRelease(p, "done")
       ELSE pc' = [pc EXCEPT ![p] = "done"] /\ UNCHANGED locker
  /\ UNCHANGED <<minerVars, tipVars, jobs, chainVars, jobVars>>

\* The chain's writer: chain.add(block) takes the lock, ...
WriterLock ==
  /\ pc[Writer] = "idle"
  /\ chainTip.height < MaxHeight
  /\ LockAcquire(Writer, "locked")
  /\ UNCHANGED <<minerVars, tipVars, jobs, chainVars, jobVars>>

\* ... connects the block as the new tip, ...
WriterConnect ==
  /\ pc[Writer] = "locked"
  /\ chainTip' = [hash |-> chainTip.hash + 1, height |-> chainTip.height + 1]
  /\ pc' = [pc EXCEPT ![Writer] = "connected"]
  /\ UNCHANGED <<minerVars, mempoolTip, locker, jobs, chainVars, jobVars>>

\* ... and releases the lock.
WriterUnlock ==
  /\ pc[Writer] = "connected"
  /\ LockRelease(Writer, "idle")
  /\ UNCHANGED <<minerVars, tipVars, jobs, chainVars, jobVars>>

\* The mempool handles the connect event and moves to the chain's tip.
MempoolSync ==
  /\ mempoolTip # chainTip.hash
  /\ mempoolTip' = chainTip.hash
  /\ UNCHANGED <<minerVars, chainTip, lockVars, chainVars, jobVars>>

\* A pool of a parent and a child that spends from it.
ExamplePool ==
  LET plain == Profile(0, SEQUENCE_FINAL, 1, 1, 2, 2, 0, 2, FALSE)
      a == HashOf(2)
      b == HashOf(1)
  IN [h \in {a, b} |->
        IF h = a THEN Entry(a, <<ExtHash>>, plain) ELSE Entry(b, <<a>>, plain)]

CreateOptionSets ==
  [maxSize : {4}, maxSigops : {3}, minSize : {3}, prioritySize : {0},
   priorityThreshold : {1}, reservedSize : {1}, reservedSigops : {1},
   preverify : BOOLEAN]

InitCreate ==
  /\ mempool = ExamplePool
  /\ hasMempool \in BOOLEAN
  /\ options \in CreateOptionSets
  /\ magnetic = FALSE
  /\ chainTip = GenesisTip
  /\ mempoolTip = GenesisTip.hash
  /\ attempt = NewTemplate(options, chainTip.height + 1, NowTime)
  /\ commitLog = << >>
  /\ outcome = "none"
  /\ pc = [p \in Procs |-> "idle"]
  /\ locker = [busy |-> FALSE, queue |-> << >>, holder |-> "none"]
  /\ jobs = [p \in Callers |-> NoJob]
  /\ InitNoChain

NextCreate ==
  \/ \E p \in Callers :
       \/ CreateBlock(p)
       \/ Prepare(p)
       \/ AssembleTemplate(p)
       \/ Preverify(p)
       \/ ExitCreateBlock(p)
  \/ WriterLock
  \/ WriterConnect
  \/ WriterUnlock
  \/ MempoolSync

SpecCreate == InitCreate /\ [][NextCreate]_vars

\* Whether p is in the section of createBlock (or of the writer) that the
\* chain lock guards.
InSection(p) ==
  IF p = Writer THEN pc[p] \in {"locked", "connected"}
  ELSE pc[p] \in {"prepare", "assemble", "verify", "exit"}

(***************************************************************************)
(* C4: with preverify on, createBlock returns the template only when       *)
(* _verifyBlock accepted its block; a VerifyError makes it fail with       *)
(* 'BUG: Miner created invalid block.', any other error is passed on       *)
(* unchanged.                                                              *)
(***************************************************************************)
C4_PreverifyAborts ==
  \A p \in Callers :
    /\ (options.preverify /\ jobs[p].result = "template") =>
         jobs[p].verified = "valid"
    /\ jobs[p].verified = "VerifyError" =>
         jobs[p].result = "BUG: Miner created invalid block."
    /\ jobs[p].verified = "Error" => jobs[p].result = "Error"

\* One call ended on the BUG error, another returned its verified template.
C4_Witness ==
  /\ options.preverify
  /\ \E p \in Callers :
       /\ pc[p] = "done" /\ jobs[p].verified = "VerifyError"
       /\ jobs[p].result = "BUG: Miner created invalid block."
  /\ \E p \in Callers :
       /\ pc[p] = "done" /\ jobs[p].verified = "valid"
       /\ jobs[p].result = "template"

(***************************************************************************)
(* C5: createBlock reads the tip and the mempool and assembles only while  *)
(* it holds the chain lock; at most one createBlock call or chain writer   *)
(* is inside its guarded section at a time; and the lock is released on    *)
(* every exit of createBlock, also when _createBlock throws.               *)
(***************************************************************************)
C5_ChainLock ==
  /\ \A p \in Procs : InSection(p) => (locker.busy /\ locker.holder = p)
  /\ \A p, q \in Procs : (InSection(p) /\ InSection(q)) => p = q
  /\ \A p \in Callers : pc[p] = "done" => locker.holder # p
  /\ (\A p \in Procs : ~InSection(p)) =>
       (~locker.busy /\ Len(locker.queue) = 0)

\* A call that threw has left, and a call that had to wait is now inside.
C5_Witness ==
  \E p, q \in Callers :
    /\ pc[p] = "done" /\ jobs[p].result = "AssertionError"
    /\ pc[q] = "assemble" /\ locker.holder = q
    /\ Len(locker.queue) > 0

(***************************************************************************)
(* C6: with a mempool attached, assemble fails its assertion and commits   *)
(* nothing whenever the mempool's tip is not the chain's tip; entries are  *)
(* only ever committed from a mempool at the chain's tip.                  *)
(***************************************************************************)
C6_TipAssert ==
  \A p \in Callers :
    (hasMempool /\ jobs[p].outcome # "none") =>
      /\ jobs[p].seenMempoolTip # jobs[p].seenChainTip =>
           /\ jobs[p].outcome = "assert"
           /\ jobs[p].result = "AssertionError"
           /\ jobs[p].attempt.items = << >>
           /\ jobs[p].attempt.size = options.reservedSize
           /\ jobs[p].attempt.fees = 0
           /\ jobs[p].log = << >>
      /\ Len(jobs[p].attempt.items) > 0 =>
           jobs[p].seenMempoolTip = jobs[p].seenChainTip

\* One call hit the assertion on a stale mempool, another committed
\* entries once the mempool had caught up.
C6_Witness ==
  /\ hasMempool
  /\ \E p \in Callers :
       /\ jobs[p].outcome = "assert"
       /\ jobs[p].seenMempoolTip # jobs[p].seenChainTip
  /\ \E p \in Callers :
       /\ jobs[p].outcome = "ok" /\ Len(jobs[p].attempt.items) = 2
       /\ jobs[p].seenChainTip # GenesisTip.hash

(***************************************************************************)
(* The chain state machine.                                                *)
(*                                                                         *)
(* Coins and TX.checkInputs come first, then the connect and disconnect    *)
(* of a block on the UTXO set, then chain.add with its reorganisation.     *)
(***************************************************************************)
Outpoint(h, i) == [hash |-> h, index |-> i]

ChainTx(k, ins, outs) == [hash |-> <<"tx", k>>, inputs |-> ins, outputs |-> outs]

Coin(v, h, cb) == [value |-> v, height |-> h, coinbase |-> cb]

\* TX.getOutputValue()
RECURSIVE SumSeq(_)
SumSeq(vals) == IF Len(vals) = 0 THEN 0 ELSE Head(vals) + SumSeq(Tail(vals))

getOutputValue(tx) == SumSeq(tx.outputs)

\* (mutant) the age of a coinbase is not looked at.
CoinCheckNoMaturity(entry, height, total) ==
  IF entry.value < 0 \/ entry.value > MAX_MONEY
    THEN [reason |-> "bad-txns-inputvalues-outofrange", score |-> 100]
  ELSE IF total + entry.value < 0 \/ total + entry.value > MAX_MONEY
    THEN [reason |-> "bad-txns-inputvalues-outofrange", score |-> 100]
  ELSE [reason |-> "valid", score |-> 0]

\* The tests TX.checkInputs makes on the coin of one input, `total` being
\* the value of the inputs before it.
CoinCheck(entry, height, total) ==
  IF entry.coinbase /\ height - entry.height < COINBASE_MATURITY
    THEN [reason |-> "bad-txns-premature-spend-of-coinbase", score |-> 0]
  ELSE IF entry.value < 0 \/ entry.value > MAX_MONEY
    THEN [reason |-> "bad-txns-inputvalues-outofrange", score |-> 100]
  ELSE IF total + entry.value < 0 \/ total + entry.value > MAX_MONEY
    THEN [reason |-> "bad-txns-inputvalues-outofrange", score |-> 100]
  ELSE [reason |-> "valid", score |-> 0]

\* The loop of TX.checkInputs over the inputs from position k on, `total`
\* being the value summed so far; -1 stands for a failed loop.
RECURSIVE InputTotal(_, _, _, _, _)
InputTotal(tx, view, height, k, total) ==
  IF k > Len(tx.inputs) THEN [total |-> total, reason |-> "valid", score |-> 0]
  ELSE LET prevout == tx.inputs[k]
       IN IF prevout \notin DOMAIN view
            THEN [total |-> -1, reason |-> "bad-txns-inputs-missingorspent", score |-> 0]
          ELSE LET entry == view[prevout]
                   r == CoinCheck(entry, height, total)
               IN IF r.reason # "valid"
                    THEN [total |-> -1, reason |-> r.reason, score |-> r.score]
                  ELSE InputTotal(tx, view, height, k + 1, total + entry.value)

\* (mutant) inputs worth less than the outputs are not refused.
FeeResultAnyValue(r, value) ==
  IF r.total = -1 THEN [fee |-> -1, reason |-> r.reason, score |-> r.score]
  ELSE IF r.total - value > MAX_MONEY
    THEN [fee |-> -1, reason |-> "bad-txns-fee-outofrange", score |-> 100]
  ELSE [fee |-> r.total - value, reason |-> "valid", score |-> 0]

\* The end of TX.checkInputs: r is what the loop over the inputs left, value
\* the total of the outputs.
FeeResult(r, value) ==
  IF r.total = -1 THEN [fee |-> -1, reason |-> r.reason, score |-> r.score]
  ELSE IF r.total < value
    THEN [fee |-> -1, reason |-> "bad-txns-in-belowout", score |-> 100]
  ELSE IF r.total - value < 0
    THEN [fee |-> -1, reason |-> "bad-txns-fee-negative", score |-> 100]
  ELSE IF r.total - value > MAX_MONEY
    THEN [fee |-> -1, reason |-> "bad-txns-fee-outofrange", score |-> 100]
  ELSE [fee |-> r.total - value, reason |-> "valid", score |-> 0]

\* TX.checkInputs(view, height): [fee, reason, score], fee -1 on failure.
checkInputs(tx, view, height) ==
  FeeResult(InputTotal(tx, view, height, 1, 0), getOutputValue(tx))

\* The outpoints a transaction creates, and the coins behind them.
Created(tx) == { Outpoint(tx.hash, i - 1) : i \in 1..Len(tx.outputs) }

\* The view after tx is connected at height: its inputs spent, its outputs
\* added.
SpendAndAdd(view, tx, height, cb) ==
  LET ins == IF cb THEN {} ELSE { tx.inputs[k] : k \in 1..Len(tx.inputs) }
  IN [o \in (DOMAIN view \ ins) \cup Created(tx) |->
        IF o \in Created(tx)
          THEN Coin(tx.outputs[o.index + 1], height, cb)
          ELSE view[o]]

\* The undo record of tx: the coins it spends, in input order.
UndoOf(view, tx) ==
  [k \in 1..Len(tx.inputs) |-> [prevout |-> tx.inputs[k], coin |-> view[tx.inputs[k]]]]

\* Per-input verification of the block's transactions against the view,
\* each connected before the next is checked; TxStep continues after the
\* first transaction, r being what checkInputs said of it.
RECURSIVE ConnectTxs(_, _, _, _, _)
RECURSIVE TxStep(_, _, _, _, _, _)
TxStep(view, txs, height, undo, fees, r) ==
  IF r.fee = -1
    THEN [ok |-> FALSE, reason |-> r.reason, view |-> view, undo |-> undo,
          fees |-> fees]
  ELSE ConnectTxs(SpendAndAdd(view, Head(txs), height, FALSE), Tail(txs), height,
                  undo \o UndoOf(view, Head(txs)), fees + r.fee)

ConnectTxs(view, txs, height, undo, fees) ==
  IF Len(txs) = 0
    THEN [ok |-> TRUE, reason |-> "valid", view |-> view, undo |-> undo, fees |-> fees]
  ELSE TxStep(view, txs, height, undo, fees, checkInputs(Head(txs), view, height))

\* The subsidy, in whole coins.
BASE_REWARD == 50

\* The coinbase of a block: it claims the subsidy and the fees.
CoinbaseOf(b, fees) ==
  [hash |-> <<"cb", b.hash>>, inputs |-> << >>, outputs |-> <<BASE_REWARD + fees>>]

\* What connect makes of the verification r of the block's inputs.
BlockResult(utxo, b, r) ==
  IF ~r.ok THEN [ok |-> FALSE, reason |-> r.reason, utxo |-> utxo, undo |-> << >>]
  ELSE [ok |-> TRUE, reason |-> "valid",
        utxo |-> SpendAndAdd(r.view, CoinbaseOf(b, r.fees), b.height, TRUE),
        undo |-> r.undo]

\* connect: verify the inputs, then write the UTXO set and the undo record.
ConnectBlock(utxo, b) ==
  BlockResult(utxo, b, ConnectTxs(utxo, b.body, b.height, << >>, 0))

\* The view with the coins of an undo record put back.
Restore(view, undo) ==
  LET outs == { undo[k].prevout : k \in 1..Len(undo) }
  IN [o \in DOMAIN view \cup outs |->
        IF o \in outs
          THEN (CHOOSE u \in { undo[k] : k \in 1..Len(undo) } : u.prevout = o).coin
          ELSE view[o]]

\* (mutant) the spent coins are not put back.
DisconnectBlockNoRestore(utxo, b, undo) ==
  LET gone == UNION { Created(b.body[k]) : k \in 1..Len(b.body) }
              \cup { Outpoint(<<"cb", b.hash>>, 0) }
  IN [o \in DOMAIN utxo \ gone |-> utxo[o]]

\* disconnect: drop what the block created, put back what it spent.
DisconnectBlock(utxo, b, undo) ==
  LET gone == UNION { Created(b.body[k]) : k \in 1..Len(b.body) }
              \cup { Outpoint(<<"cb", b.hash>>, 0) }
      kept == [o \in DOMAIN utxo \ gone |-> utxo[o]]
      back == Restore(kept, undo)
  IN [o \in DOMAIN back \ gone |-> back[o]]

\* The coins of the block the model's chain starts from: a spendable output,
\* a coinbase old enough to spend, and the coinbase of the starting block.
BaseHeight == COINBASE_MATURITY

BaseHash == 0

BaseUtxo ==
  LET a == Outpoint(<<"tx", 0>>, 0)
      b == Outpoint(<<"cb", -1>>, 0)
      c == Outpoint(<<"cb", BaseHash>>, 0)
  IN [o \in {a, b, c} |->
        IF o = a THEN Coin(5, BaseHeight \div 2, FALSE)
        ELSE IF o = b THEN Coin(BASE_REWARD, 0, TRUE)
        ELSE Coin(BASE_REWARD, BaseHeight, TRUE)]

\* The bodies a candidate block may carry: T1 spends the plain output, T2
\* spends T1, T4 spends the old coinbase, T5 the young one, T6 pays out more
\* than it spends.
T1 == ChainTx(1, <<Outpoint(<<"tx", 0>>, 0)>>, <<5>>)
T2 == ChainTx(2, <<Outpoint(<<"tx", 1>>, 0)>>, <<2, 2>>)
T4 == ChainTx(4, <<Outpoint(<<"cb", -1>>, 0)>>, <<BASE_REWARD>>)
T5 == ChainTx(5, <<Outpoint(<<"cb", BaseHash>>, 0)>>, <<BASE_REWARD>>)
T6 == ChainTx(6, <<Outpoint(<<"cb", -1>>, 0)>>, <<BASE_REWARD + 1>>)

Bodies == { << >>, <<T1>>, <<T2>>, <<T4>>, <<T5>>, <<T6>>, <<T1, T2>> }

\* What the header and body checks of the pipeline say of a candidate.
CheckResults == {"valid", "high-hash", "bad-txnmrklroot"}

ChainEntry(h, prev, height, body) ==
  [hash |-> h, prev |-> prev, height |-> height, body |-> body]

Last(s) == s[Len(s)]

Front(s) == SubSeq(s, 1, Len(s) - 1)

Tip(ch) == ch.entries[Last(ch.main)]

OnMain(ch, h) == \E k \in 1..Len(ch.main) : ch.main[k] = h

Event(type, e) == [type |-> type, hash |-> e.hash, prev |-> e.prev, height |-> e.height]

\* The entries from the main chain (excluded) up to h, lowest first.
RECURSIVE Branch(_, _)
Branch(ch, h) ==
  IF OnMain(ch, h) THEN << >> ELSE Append(Branch(ch, ch.entries[h].prev), h)

\* The common ancestor of the main chain and h.
RECURSIVE FindFork(_, _)
FindFork(ch, h) == IF OnMain(ch, h) THEN h ELSE FindFork(ch, ch.entries[h].prev)

\* disconnect of the tip: the UTXO set is reversed with the undo record,
\* the record is deleted and the tip moves to the parent.
DisconnectTip(ch) ==
  LET e == Tip(ch)
  IN [ch EXCEPT !.main = Front(ch.main),
                !.utxo = DisconnectBlock(ch.utxo, e, ch.undo[e.hash]),
                !.undo = [h \in DOMAIN ch.undo \ {e.hash} |-> ch.undo[h]]]

\* The result `rest` of a run of connects or disconnects, with the event of
\* the step before it put in front.
After(ev, rest) == [rest EXCEPT !.events = <<ev>> \o rest.events]

\* The n highest blocks of the main chain disconnected, highest first.
RECURSIVE DisconnectN(_, _)
DisconnectN(ch, n) ==
  IF n = 0 THEN [ch |-> ch, events |-> << >>]
  ELSE After(Event("disconnect", Tip(ch)), DisconnectN(DisconnectTip(ch), n - 1))

\* The chain with entry e connected, r being the result of its connect.
Connected(ch, e, r) ==
  [ch EXCEPT !.main = Append(ch.main, e.hash),
             !.utxo = r.utxo,
             !.undo = (e.hash :> r.undo) @@ ch.undo]

\* One more block connected before the run `rest`.
Counted(rest) == [rest EXCEPT !.done = rest.done + 1]

\* The entries of hs connected on the tip one after the other, up to the
\* first whose inputs do not verify; ConnectStep continues after the connect
\* r of the first of them.
RECURSIVE ConnectSeq(_, _)
RECURSIVE ConnectStep(_, _, _, _)
ConnectStep(ch, e, hs, r) ==
  IF ~r.ok
    THEN [ok |-> FALSE, ch |-> ch, events |-> << >>, done |-> 0,
          offender |-> e.hash, reason |-> r.reason]
  ELSE After(Event("connect", e), Counted(ConnectSeq(Connected(ch, e, r), Tail(hs))))

ConnectSeq(ch, hs) ==
  IF Len(hs) = 0
    THEN [ok |-> TRUE, ch |-> ch, events |-> << >>, done |-> 0,
          offender |-> -1, reason |-> "valid"]
  ELSE ConnectStep(ch, ch.entries[Head(hs)], hs,
                   ConnectBlock(ch.utxo, ch.entries[Head(hs)]))

\* (mutant) the connects of the new branch come before the disconnects.
ReorgEventsConnectFirst(dis, con) == con \o dis

\* The events of a reorganisation, in the order they are emitted.
ReorgEvents(dis, con) == dis \o con

\* The old branch connected again after the disconnects `back`.
Reconnected(back, old) == [ConnectSeq(back.ch, old) EXCEPT !.events = back.events \o @]

\* (mutant) a failed reorganisation stays where the failure left it.
RollbackNone(ch, done, old) ==
  [ok |-> TRUE, ch |-> ch, events |-> << >>, done |-> 0, offender |-> -1,
   reason |-> "valid"]

\* The roll back of a failed reorganisation: the `done` blocks of the new
\* branch are disconnected and the old branch is connected again.
Rollback(ch, done, old) == Reconnected(DisconnectN(ch, done), old)

\* The end of a failed reorganisation: rb is the roll back, con the run of
\* connects that failed.
ReorgFailed(events, con, rb) ==
  [ok |-> FALSE,
   ch |-> [rb.ch EXCEPT !.invalid = @ \cup {con.offender}],
   events |-> events \o rb.events,
   offender |-> con.offender, reason |-> con.reason]

\* The end of a reorganisation: con is the run of connects of the new branch.
ReorgEnd(disEvents, con, old) ==
  IF con.ok
    THEN [ok |-> TRUE, ch |-> con.ch, events |-> ReorgEvents(disEvents, con.events),
          offender |-> -1, reason |-> "valid"]
  ELSE ReorgFailed(ReorgEvents(disEvents, con.events), con,
                   Rollback(con.ch, con.done, old))

\* The connects of a reorganisation, after the disconnects dis.
ReorgConnect(dis, branch, old) ==
  ReorgEnd(dis.events, ConnectSeq(dis.ch, branch), old)

\* The blocks of the main chain above h, lowest first.
Above(ch, h) ==
  SubSeq(ch.main, (CHOOSE k \in 1..Len(ch.main) : ch.main[k] = h) + 1, Len(ch.main))

\* The disconnects of a reorganisation, old being the branch to leave.
ReorgFrom(ch, h, old) == ReorgConnect(DisconnectN(ch, Len(old)), Branch(ch, h), old)

\* reorganize: disconnect down to the fork, connect the new branch; when a
\* connect fails, roll back and mark the offending entry invalid.
Reorganize(ch, h) == ReorgFrom(ch, h, Above(ch, FindFork(ch, h)))

\* A listener keeps the chain it was told of; it sees a linear history as
\* long as every connect extends, and every disconnect removes, its tip.
Fits(l, ev) ==
  IF ev.type = "connect" THEN ev.prev = Last(l.chain) ELSE ev.hash = Last(l.chain)

Told(l, ev) ==
  IF ~Fits(l, ev) THEN [l EXCEPT !.linear = FALSE]
  ELSE IF ev.type = "connect" THEN [l EXCEPT !.chain = Append(l.chain, ev.hash)]
  ELSE [l EXCEPT !.chain = Front(l.chain)]

RECURSIVE Deliver(_, _)
Deliver(l, events) ==
  IF Len(events) = 0 THEN l ELSE Deliver(Told(l, Head(events)), Tail(events))

\* The chain with the starting block alone.
BaseChain ==
  [entries |-> (BaseHash :> ChainEntry(BaseHash, -1, BaseHeight, << >>)),
   main |-> <<BaseHash>>,
   utxo |-> BaseUtxo,
   undo |-> [h \in {} |-> << >>],
   invalid |-> {}]

\* The chain after entry e was stored.
WithEntry(ch, e) == [ch EXCEPT !.entries = (e.hash :> e) @@ ch.entries]

\* A chain of two blocks on the starting block, the first carrying T1.
StartChain ==
  LET a1 == ChainEntry(1, BaseHash, BaseHeight + 1, <<T1>>)
      a2 == ChainEntry(2, 1, BaseHeight + 2, << >>)
  IN ConnectSeq(WithEntry(WithEntry(BaseChain, a1), a2), <<1, 2>>).ch

NoOp ==
  [kind |-> "none", error |-> "none", reason |-> "valid",
   block |-> ChainEntry(-1, -1, -1, << >>), check |-> "valid",
   preMain |-> << >>, preUtxo |-> << >>, preUndo |-> << >>, offender |-> -1]

InitChain ==
  /\ mempool = << >>
  /\ hasMempool = FALSE
  /\ options \in CreateOptionSets /\ ~options.preverify
  /\ magnetic = FALSE
  /\ chainTip = GenesisTip
  /\ mempoolTip = GenesisTip.hash
  /\ attempt = NewTemplate(options, chainTip.height + 1, NowTime)
  /\ commitLog = << >>
  /\ outcome = "none"
  /\ InitNoCalls
  /\ chain = StartChain
  /\ pushed = << >>
  /\ loop = NoLoop
  /\ thisAddr = NoAddress
  /\ InitNoUnit
  /\ received = 0
  /\ emitted = << >>
  /\ listener = [chain |-> chain.main, linear |-> TRUE]
  /\ lastOp = NoOp

\* Whether h or an ancestor of it off the main chain is marked invalid.
RECURSIVE HasInvalidAncestor(_, _)
HasInvalidAncestor(ch, h) ==
  \/ h \in ch.invalid
  \/ ~OnMain(ch, h) /\ HasInvalidAncestor(ch, ch.entries[h].prev)

\* What chain.add answers: [kind, error, reason, ch, events, offender].
Refused(ch, reason) ==
  [kind |-> "reject", error |-> "VerifyError", reason |-> reason,
   ch |-> ch, events |-> << >>, offender |-> -1]

\* The answer for a candidate on the tip, r being the result of its connect.
TipOutcome(ch, r) ==
  IF r.ok
    THEN [kind |-> "connect", error |-> "none", reason |-> "valid",
          ch |-> r.ch, events |-> r.events, offender |-> -1]
  ELSE Refused(ch, r.reason)

\* The answer for a candidate with more work than the tip on another
\* branch, r being the result of the reorganisation.
ReorgOutcome(r) ==
  IF r.ok
    THEN [kind |-> "reorg", error |-> "none", reason |-> "valid",
          ch |-> r.ch, events |-> r.events, offender |-> -1]
  ELSE [kind |-> "reorg-failed", error |-> "VerifyError",
        reason |-> r.reason, ch |-> r.ch, events |-> r.events,
        offender |-> r.offender]

\* What chain.add does with the candidate block.
AddOutcome(ch, b, check) ==
  IF check # "valid" THEN Refused(ch, check)
  ELSE IF HasInvalidAncestor(ch, b.prev) THEN Refused(ch, "bad-prevblk")
  ELSE IF b.prev = Tip(ch).hash
    THEN TipOutcome(ch, ConnectSeq(WithEntry(ch, b), <<b.hash>>))
  ELSE IF b.height > Tip(ch).height
    THEN ReorgOutcome(Reorganize(WithEntry(ch, b), b.hash))
  ELSE [kind |-> "side", error |-> "none", reason |-> "valid",
        ch |-> WithEntry(ch, b), events |-> << >>, offender |-> -1]

\* The effect of chain.add(b) with answer r: the chain is written, the
\* events are delivered to the listener, the call is recorded.
Answer(b, check, r) ==
  /\ chain' = r.ch
  /\ emitted' = r.events
  /\ listener' = Deliver(listener, r.events)
  /\ lastOp' = [kind |-> r.kind, error |-> r.error, reason |-> r.reason,
                block |-> b, check |-> check, preMain |-> chain.main,
                preUtxo |-> chain.utxo, preUndo |-> chain.undo,
                offender |-> r.offender]

\* The candidate with the next unused hash on entry prev.
Candidate(prev, body) ==
  ChainEntry(received + 3, prev, chain.entries[prev].height + 1, body)

\* chain.add(block): one whole call, with the events it emits delivered to
\* the listener.
AddBlock ==
  /\ received < MaxBlocks
  /\ \E prev \in DOMAIN chain.entries, body \in Bodies, check \in CheckResults :
       /\ check # "valid" => (body = << >> /\ prev = Tip(chain).hash)
       /\ Answer(Candidate(prev, body), check,
                 AddOutcome(chain, Candidate(prev, body), check))
  /\ received' = received + 1
  /\ UNCHANGED <<minerVars, tipVars, lockVars, jobVars>>

NextChain == AddBlock

SpecChain == InitChain /\ [][NextChain]_vars

\* Whether the last call of chain.add reorganised, and what it found: the
\* number of blocks of the old branch and the height of the fork.
Reorganised == lastOp.kind \in {"reorg", "reorg-failed"}

OnOldMain(h) == \E k \in 1..Len(lastOp.preMain) : lastOp.preMain[k] = h

RECURSIVE OldFork(_)
OldFork(h) == IF OnOldMain(h) THEN h ELSE OldFork(chain.entries[h].prev)

ForkHeight == chain.entries[OldFork(lastOp.block.prev)].height

OldTipHeight == BaseHeight + Len(lastOp.preMain) - 1

Disconnected == OldTipHeight - ForkHeight

(***************************************************************************)
(* C7: a reorganisation first emits the disconnects of the old branch,     *)
(* from the old tip down to the block above the common ancestor, heights   *)
(* strictly descending; the connects of blocks of the new branch come      *)
(* after them, strictly ascending from the block above the ancestor, and   *)
(* when the reorganisation succeeds they reach the new tip and nothing     *)
(* else is emitted.  A listener applying the events in emission order      *)
(* always sees a linear history, and ends up with the chain's main chain.  *)
(***************************************************************************)
C7_ReorgEventOrder ==
  /\ listener.linear
  /\ listener.chain = chain.main
  /\ Reorganised =>
       LET d == Disconnected
           n == Len(emitted)
       IN /\ d >= 1
          /\ n >= d
          /\ \A k \in 1..d :
               /\ emitted[k].type = "disconnect"
               /\ emitted[k].hash = lastOp.preMain[Len(lastOp.preMain) - k + 1]
               /\ emitted[k].height = OldTipHeight - k + 1
          /\ \A k \in 1..(d - 1) : emitted[k].height > emitted[k + 1].height
          /\ \A k \in (d + 1)..n :
               (emitted[k].type = "connect" /\ ~OnOldMain(emitted[k].hash))
                 => emitted[k].height = ForkHeight + (k - d)
          /\ lastOp.kind = "reorg" =>
               /\ n = d + (lastOp.block.height - ForkHeight)
               /\ \A k \in (d + 1)..n : emitted[k].type = "connect"
               /\ emitted[n].hash = lastOp.block.hash

\* A reorganisation that disconnected two blocks and connected three.
C7_Witness ==
  /\ lastOp.kind = "reorg"
  /\ Disconnected = 2
  /\ Len(emitted) = 5
  /\ listener.chain = chain.main
  /\ Tip(chain).hash = lastOp.block.hash

(***************************************************************************)
(* C8: when a forward connect of a reorganisation fails, the main chain    *)
(* (and so the tip) and the UTXO set are what they were before the call,   *)
(* the entry that failed is marked invalid, and no block of the failed     *)
(* branch is on the main chain.                                            *)
(***************************************************************************)
C8_FailedReorgRollsBack ==
  lastOp.kind = "reorg-failed" =>
    /\ chain.main = lastOp.preMain
    /\ Tip(chain).hash = Last(lastOp.preMain)
    /\ chain.utxo = lastOp.preUtxo
    /\ lastOp.offender \in chain.invalid
    /\ ~OnMain(chain, lastOp.offender)
    /\ ~OnMain(chain, lastOp.block.hash)

\* A reorganisation failed after a block of the new branch was connected.
C8_Witness ==
  /\ lastOp.kind = "reorg-failed"
  /\ \E k \in 1..Len(emitted) :
       /\ emitted[k].type = "connect"
       /\ ~OnOldMain(emitted[k].hash)
  /\ lastOp.offender \in chain.invalid
  /\ chain.main = lastOp.preMain

\* The UTXO set that connecting the blocks of main, from the second on,
\* yields from the coins of the starting block.
RECURSIVE Replay(_)
Replay(main) ==
  IF Len(main) <= 1 THEN BaseUtxo
  ELSE ConnectBlock(Replay(Front(main)), chain.entries[Last(main)]).utxo

(***************************************************************************)
(* C9: at every tip the UTXO set is what connecting the blocks of the main *)
(* chain from the starting block yields; disconnecting the tip with its    *)
(* undo record gives the UTXO set of the parent, and connecting the block  *)
(* again gives back the UTXO set and the undo record.                      *)
(***************************************************************************)
C9_ReorgLaw ==
  /\ chain.utxo = Replay(chain.main)
  /\ DOMAIN chain.undo = { chain.main[k] : k \in 2..Len(chain.main) }
  /\ Len(chain.main) > 1 =>
       LET e == Tip(chain)
           before == DisconnectBlock(chain.utxo, e, chain.undo[e.hash])
           again == ConnectBlock(before, e)
       IN /\ before = Replay(Front(chain.main))
          /\ again.ok
          /\ again.utxo = chain.utxo
          /\ again.undo = chain.undo[e.hash]

\* After a reorganisation away from a block that spent a coin, the tip
\* spends coins too.
C9_Witness ==
  /\ lastOp.kind = "reorg"
  /\ \E k \in 1..Len(emitted) :
       /\ emitted[k].type = "disconnect"
       /\ Len(chain.entries[emitted[k].hash].body) > 0
  /\ Len(chain.undo[Tip(chain).hash]) > 0
  /\ chain.utxo = Replay(chain.main)

\* Whether the first transaction of the candidate spends a coin that is
\* missing or a coinbase too young, or pays out more than it spends.
HeadFails(b, utxo) ==
  /\ Len(b.body) > 0
  /\ LET tx == b.body[1]
         ins == 1..Len(tx.inputs)
     IN \/ \E k \in ins : tx.inputs[k] \notin DOMAIN utxo
        \/ \E k \in ins :
             /\ tx.inputs[k] \in DOMAIN utxo
             /\ utxo[tx.inputs[k]].coinbase
             /\ b.height - utxo[tx.inputs[k]].height < COINBASE_MATURITY
        \/ /\ \A k \in ins : tx.inputs[k] \in DOMAIN utxo
           /\ SumSeq([k \in ins |-> utxo[tx.inputs[k]].value]) < SumSeq(tx.outputs)

(***************************************************************************)
(* C10: a candidate whose header or body check fails, or whose first       *)
(* transaction fails the input check when the block is connected on the    *)
(* tip, is answered with a VerifyError; and whenever chain.add raises a    *)
(* VerifyError the main chain, the UTXO set and the undo records are what  *)
(* they were before the call and no connect event for the candidate was    *)
(* emitted.                                                                *)
(***************************************************************************)
C10_FailedCheckNoMutation ==
  /\ (/\ lastOp.kind # "none"
      /\ \/ lastOp.check # "valid"
         \/ /\ lastOp.block.prev = Last(lastOp.preMain)
            /\ HeadFails(lastOp.block, lastOp.preUtxo))
       => lastOp.error = "VerifyError"
  /\ lastOp.error = "VerifyError" =>
       /\ chain.main = lastOp.preMain
       /\ chain.utxo = lastOp.preUtxo
       /\ chain.undo = lastOp.preUndo
       /\ ~OnMain(chain, lastOp.block.hash)
       /\ \A k \in 1..Len(emitted) :
            ~(emitted[k].type = "connect" /\ emitted[k].hash = lastOp.block.hash)

\* A candidate on the tip was refused for spending a coinbase too young,
\* after another block had been connected.
C10_Witness ==
  /\ lastOp.error = "VerifyError"
  /\ lastOp.reason = "bad-txns-premature-spend-of-coinbase"
  /\ lastOp.kind = "reject"
  /\ lastOp.block.prev = Last(lastOp.preMain)
  /\ Len(chain.main) > 3
  /\ chain.utxo = lastOp.preUtxo

(***************************************************************************)
(* A job without a mempool: a wallet's transactions are pushed into the    *)
(* template by hand, the template is assembled, its block is mined and     *)
(* given to the chain.                                                     *)
(***************************************************************************)
\* The number HashOf made hash h from.
NumOf(h) == h[1] + 2 * h[2]

\* tx1 funds the wallet from a coinbase, tx2 spends tx1, and the txid of
\* tx2 is below the txid of tx1.
FundHash == HashOf(2)

SpendHash == HashOf(1)

\* The wallet's transaction of hash h; any other hash is a transaction of
\* its own, spending a coinbase nobody else spends.
WalletTx(h) ==
  IF h = FundHash
    THEN [hash |-> h, inputs |-> <<Outpoint(ExtHash, 0)>>, outputs |-> <<1>>]
  ELSE IF h = SpendHash
    THEN [hash |-> h, inputs |-> <<Outpoint(FundHash, 0)>>, outputs |-> <<1>>]
  ELSE [hash |-> h, inputs |-> <<Outpoint(ExtHash, NumOf(h))>>,
        outputs |-> <<BASE_REWARD>>]

\* The coins of the chain the job builds on: coinbases old enough to spend.
JobUtxo ==
  [o \in { Outpoint(ExtHash, i) : i \in 0..MaxTx } |-> Coin(BASE_REWARD, 0, TRUE)]

JobChain == [BaseChain EXCEPT !.utxo = JobUtxo]

\* The check of canonical order: txids strictly ascending.
InCanonicalOrder(txs) ==
  \A k \in 1..(Len(txs) - 1) : StrLess(txid(txs[k].hash), txid(txs[k + 1].hash))

\* The view with the outputs of tx added.
WithOutputs(view, tx, height) ==
  [o \in DOMAIN view \cup Created(tx) |->
     IF o \in Created(tx) THEN Coin(tx.outputs[o.index + 1], height, FALSE)
     ELSE view[o]]

\* The view with the outputs of every transaction of the block added.
RECURSIVE AddOutputs(_, _, _)
AddOutputs(view, txs, height) ==
  IF Len(txs) = 0 THEN view
  ELSE AddOutputs(WithOutputs(view, Head(txs), height), Tail(txs), height)

\* The view with the inputs of tx spent.
WithoutInputs(view, tx) ==
  [o \in DOMAIN view \ { tx.inputs[k] : k \in 1..Len(tx.inputs) } |-> view[o]]

\* The inputs of the transactions checked and spent in block order, the
\* outputs of the block being in the view already.
RECURSIVE SpendTxs(_, _, _, _, _)
RECURSIVE SpendStep(_, _, _, _, _, _)
SpendStep(view, txs, height, undo, fees, r) ==
  IF r.fee = -1
    THEN [ok |-> FALSE, reason |-> r.reason, view |-> view, undo |-> undo,
          fees |-> fees]
  ELSE SpendTxs(WithoutInputs(view, Head(txs)), Tail(txs), height,
                undo \o UndoOf(view, Head(txs)), fees + r.fee)

SpendTxs(view, txs, height, undo, fees) ==
  IF Len(txs) = 0
    THEN [ok |-> TRUE, reason |-> "valid", view |-> view, undo |-> undo, fees |-> fees]
  ELSE SpendStep(view, txs, height, undo, fees, checkInputs(Head(txs), view, height))

\* The input verification of a block body: with canonical order in force
\* the order is checked and every output of the block is in the view before
\* an input is resolved; without it each transaction sees the ones before.
VerifyBody(utxo, txs, height, mag) ==
  IF ~mag THEN ConnectTxs(utxo, txs, height, << >>, 0)
  ELSE IF ~InCanonicalOrder(txs)
    THEN [ok |-> FALSE, reason |-> "tx-ordering", view |-> utxo, undo |-> << >>,
          fees |-> 0]
  ELSE SpendTxs(AddOutputs(utxo, txs, height), txs, height, << >>, 0)

\* The template's transactions after the coinbase.
BlockBody(txs) == [k \in 1..(Len(txs) - 1) |-> WalletTx(txs[k + 1])]

\* The coin of the block's coinbase.
JobCoinbase(view, height, fees) ==
  (Outpoint(CoinbaseHash, 0) :> Coin(BASE_REWARD + fees, height, TRUE)) @@ view

InitJob ==
  /\ mempool = << >>
  /\ hasMempool = FALSE
  /\ options \in CreateOptionSets /\ ~options.preverify
  /\ magnetic = FALSE
  /\ chainTip = GenesisTip
  /\ mempoolTip = GenesisTip.hash
  /\ attempt = NewTemplate(options, chainTip.height + 1, NowTime)
  /\ commitLog = << >>
  /\ outcome = "none"
  /\ InitNoCalls
  /\ chain = JobChain
  /\ pushed = << >>
  /\ loop = NoLoop
  /\ thisAddr = NoAddress
  /\ InitNoUnit
  /\ received = 0
  /\ emitted = << >>
  /\ listener = [chain |-> chain.main, linear |-> TRUE]
  /\ lastOp = NoOp

\* job.pushTX(tx): the transaction goes to the end of the template.
JobPushTX ==
  /\ outcome = "none"
  /\ Len(attempt.items) < MaxTx
  /\ \E h \in TxHashes :
       /\ \A k \in 1..Len(attempt.items) : attempt.items[k] # h
       /\ attempt' = [attempt EXCEPT !.items = Append(@, h), !.size = @ + 1]
       /\ pushed' = Append(pushed, h)
  /\ UNCHANGED <<mempool, hasMempool, options, magnetic, commitLog, outcome,
                 tipVars, lockVars, chainVars, loop, thisAddr, unitVars>>

\* job.mineAsync(): the block of the assembled template.
JobMine ==
  /\ outcome = "ok"
  /\ lastOp.kind = "none"
  /\ lastOp' = [NoOp EXCEPT !.kind = "mined",
                            !.block = ChainEntry(1, BaseHash, BaseHeight + 1,
                                                 BlockBody(toBlock(attempt)))]
  /\ UNCHANGED <<minerVars, tipVars, lockVars, chain, received, emitted, listener,
                 jobVars>>

\* The effect of chain.add(b), r being the verification of b's inputs.
JobAnswer(b, r) ==
  /\ chain' = IF r.ok
                THEN [WithEntry(chain, b) EXCEPT
                        !.main = Append(@, b.hash),
                        !.utxo = JobCoinbase(r.view, b.height, r.fees),
                        !.undo = (b.hash :> r.undo) @@ @]
              ELSE chain
  /\ emitted' = IF r.ok THEN <<Event("connect", b)>> ELSE << >>
  /\ listener' = IF r.ok THEN Told(listener, Event("connect", b)) ELSE listener
  /\ lastOp' = [kind |-> IF r.ok THEN "connect" ELSE "reject",
                error |-> IF r.ok THEN "none" ELSE "VerifyError",
                reason |-> r.reason, block |-> b, check |-> "valid",
                preMain |-> chain.main, preUtxo |-> chain.utxo,
                preUndo |-> chain.undo, offender |-> -1]

\* chain.add(block) of the mined block.
JobAdd ==
  /\ lastOp.kind = "mined"
  /\ received = 0
  /\ JobAnswer(lastOp.block,
               VerifyBody(chain.utxo, lastOp.block.body, lastOp.block.height, magnetic))
  /\ received' = 1
  /\ UNCHANGED <<minerVars, tipVars, lockVars, jobVars>>

NextJob == JobPushTX \/ Assemble \/ JobMine \/ JobAdd

SpecJob == InitJob /\ [][NextJob]_vars

\* The position of hash h in sequence s (0 when it is not in s).
PosIn(s, h) ==
  IF \E k \in 1..Len(s) : s[k] = h THEN CHOOSE k \in 1..Len(s) : s[k] = h ELSE 0

InitRest ==
  /\ mempool = << >>
  /\ hasMempool = FALSE
  /\ options = CHOOSE o \in CreateOptionSets : ~o.preverify
  /\ magnetic = FALSE
  /\ chainTip = GenesisTip
  /\ mempoolTip = GenesisTip.hash
  /\ attempt = NewTemplate(options, chainTip.height + 1, NowTime)
  /\ commitLog = << >>
  /\ outcome = "none"
  /\ InitNoCalls
  /\ pushed = << >>
  /\ loop = NoLoop
  /\ thisAddr = NoAddress
  /\ chain = << >>
  /\ received = 0
  /\ emitted = << >>
  /\ listener = << >>
  /\ lastOp = << >>

restVars == <<minerVars, tipVars, lockVars, chainVars, pushed, loop, thisAddr>>

\* The fields a caller may assign, and the values it assigns.
TxVersions == {1, 2}

TxLocktimes == {0, 300}

\* frameNormal(): the bytes of the fields, least significant byte first.
frameNormal(t) ==
  <<t.version % 256, t.version \div 256, t.locktime % 256, t.locktime \div 256>>

\* hash256.digest(data): a number computed from the bytes.
digest(data) ==
  (SumSeq([k \in 1..Len(data) |-> data[k] * (2 * k + 1)]) + 17) % 251

\* h.toString('hex'): the two hex digits of the number.
toHex(h) == <<h \div 16, h % 16>>

\* The values of the cache fields that stand for null and for -1.
NoHash == -1

NoBytes == << >>

\* refresh(): clear any cached values.
Refreshed(t) ==
  [t EXCEPT !._hash = NoHash, !._hhash = NoBytes, !._raw = NoBytes, !._size = -1]

\* new TX(options), or new MTX(options) with mutable set.
NewTX(version, locktime, mutable) ==
  Refreshed([version |-> version, locktime |-> locktime, mutable |-> mutable,
             _hash |-> NoHash, _hhash |-> NoBytes, _raw |-> NoBytes, _size |-> -1])

\* TX.fromRaw(data): the bytes read are kept when the object is immutable.
FromRaw(t) ==
  IF ~t.mutable
    THEN [t EXCEPT !._raw = frameNormal(t), !._size = Len(frameNormal(t))]
  ELSE t

\* frame(): [tx, data, size, serialized, failed]; serialized tells whether
\* frameNormal() ran, failed whether the assertion on _raw failed.
frame(t) ==
  IF t.mutable
    THEN [tx |-> t, data |-> frameNormal(t), size |-> Len(frameNormal(t)),
          serialized |-> TRUE, failed |-> t._raw # NoBytes]
  ELSE IF t._raw # NoBytes
    THEN [tx |-> t, data |-> t._raw, size |-> t._size, serialized |-> FALSE,
          failed |-> t._size < 0]
  ELSE [tx |-> [t EXCEPT !._raw = frameNormal(t), !._size = Len(frameNormal(t))],
        data |-> frameNormal(t), size |-> Len(frameNormal(t)),
        serialized |-> TRUE, failed |-> FALSE]

\* (mutant) the hash is stored whether or not the object is mutable.
StoresAlways(t) == TRUE

\* if (!this.mutable) this._hash = h;
Stores(t) == ~t.mutable

\* The first half of hash(): h is the cached hash, or the digest of
\* toRaw(), stored when the object is immutable; f is the result of frame().
HashOfFrame(t, f) ==
  [tx |-> IF Stores(t) THEN [f.tx EXCEPT !._hash = digest(f.data)] ELSE f.tx,
   value |-> digest(f.data), serialized |-> f.serialized, failed |-> f.failed]

rawHash(t) ==
  IF t._hash # NoHash
    THEN [tx |-> t, value |-> t._hash, serialized |-> FALSE, failed |-> FALSE]
  ELSE HashOfFrame(t, frame(t))

\* The second half of hash(enc): with 'hex' the cached hex string, or the
\* hex of h, stored when the object is immutable; r is the first half.
HexOf(r) ==
  IF r.tx._hhash # NoBytes THEN [r EXCEPT !.value = r.tx._hhash]
  ELSE [r EXCEPT !.value = toHex(r.value),
                 !.tx = IF Stores(r.tx) THEN [r.tx EXCEPT !._hhash = toHex(r.value)]
                        ELSE r.tx]

hash(t, enc) == IF enc = "hex" THEN HexOf(rawHash(t)) ELSE rawHash(t)

\* toRaw(): frame().data
toRaw(t) ==
  [tx |-> frame(t).tx, value |-> frame(t).data, serialized |-> frame(t).serialized,
   failed |-> frame(t).failed]

\* getSize(): the size computed from the fields when mutable, else
\* frame().size
getSize(t) ==
  IF t.mutable
    THEN [tx |-> t, value |-> Len(frameNormal(t)), serialized |-> FALSE,
          failed |-> FALSE]
  ELSE [tx |-> frame(t).tx, value |-> frame(t).size,
        serialized |-> frame(t).serialized, failed |-> frame(t).failed]

\* The record of a call on thisTx: what it was given, what it returned, and
\* the object before it.
Called(call, enc, r) ==
  /\ thisTx' = IF r.failed THEN thisTx ELSE r.tx
  /\ args' = [call |-> call, enc |-> enc, pre |-> thisTx]
  /\ ret' = [value |-> IF r.failed THEN "assert" ELSE r.value,
             serialized |-> r.serialized, failed |-> r.failed]

InitTx ==
  /\ InitRest
  /\ \E v \in TxVersions, lt \in TxLocktimes, m \in BOOLEAN, read \in BOOLEAN :
       thisTx = IF read THEN FromRaw(NewTX(v, lt, m)) ELSE NewTX(v, lt, m)
  /\ thisBlock = << >>
  /\ args = [call |-> "new", enc |-> "none", pre |-> thisTx]
  /\ ret = [value |-> "none", serialized |-> FALSE, failed |-> FALSE]

TxHash ==
  /\ \E enc \in {"raw", "hex"} : Called("hash", enc, hash(thisTx, enc))
  /\ UNCHANGED <<restVars, thisBlock>>

TxToRaw ==
  /\ Called("toRaw", "none", toRaw(thisTx))
  /\ UNCHANGED <<restVars, thisBlock>>

TxGetSize ==
  /\ Called("getSize", "none", getSize(thisTx))
  /\ UNCHANGED <<restVars, thisBlock>>

TxRefresh ==
  /\ thisTx' = Refreshed(thisTx)
  /\ args' = [call |-> "refresh", enc |-> "none", pre |-> thisTx]
  /\ ret' = [value |-> "none", serialized |-> FALSE, failed |-> FALSE]
  /\ UNCHANGED <<restVars, thisBlock>>

\* A caller assigns a field of the object.
TxAssign ==
  /\ \E v \in TxVersions, lt \in TxLocktimes :
       /\ (v # thisTx.version) # (lt # thisTx.locktime)
       /\ thisTx' = [thisTx EXCEPT !.version = v, !.locktime = lt]
  /\ args' = [call |-> "assign", enc |-> "none", pre |-> thisTx]
  /\ ret' = [value |-> "none", serialized |-> FALSE, failed |-> FALSE]
  /\ UNCHANGED <<restVars, thisBlock>>

NextTx == TxHash \/ TxToRaw \/ TxGetSize \/ TxRefresh \/ TxAssign

SpecTx == InitTx /\ [][NextTx]_vars

\* The calls that read the object.
Reads == {"hash", "toRaw", "getSize"}

\* What a call returns when it computes from the fields t holds now.
Fresh(t, call, enc) ==
  IF call = "toRaw" THEN frameNormal(t)
  ELSE IF call = "getSize" THEN Len(frameNormal(t))
  ELSE IF enc = "hex" THEN toHex(digest(frameNormal(t)))
  ELSE digest(frameNormal(t))

\* What a call returns from bytes cached earlier.
Cached(raw, call, enc) ==
  IF call = "toRaw" THEN raw
  ELSE IF call = "getSize" THEN Len(raw)
  ELSE IF enc = "hex" THEN toHex(digest(raw))
  ELSE digest(raw)

\* C12: an immutable transaction whose bytes were produced answers every later
\* hash(), toRaw() and getSize() from the cached bytes and the cached hash,
\* without serializing again and whatever its fields have become, until
\* refresh() clears the cache; a mutable transaction never holds a cache, and
\* every hash(), toRaw() and getSize() equals the value computed from its
\* current fields, hash() and toRaw() serializing each time.
C12_HashCache ==
  /\ ~ret.failed
  /\ (~thisTx.mutable /\ thisTx._hash # NoHash)
       => thisTx._raw # NoBytes /\ thisTx._hash = digest(thisTx._raw)
  /\ (~thisTx.mutable /\ thisTx._hhash # NoBytes)
       => thisTx._hash # NoHash /\ thisTx._hhash = toHex(thisTx._hash)
  /\ (~thisTx.mutable /\ thisTx._raw # NoBytes) => thisTx._size = Len(thisTx._raw)
  /\ (~thisTx.mutable /\ args.call \in Reads /\ args.pre._raw # NoBytes)
       => /\ ~ret.serialized
          /\ ret.value = Cached(args.pre._raw, args.call, args.enc)
          /\ thisTx._raw = args.pre._raw
          /\ args.pre._hash # NoHash => thisTx._hash = args.pre._hash
  /\ (~thisTx.mutable /\ args.call \in Reads /\ args.pre._raw = NoBytes)
       => /\ ret.serialized
          /\ ret.value = Fresh(args.pre, args.call, args.enc)
          /\ thisTx._raw = frameNormal(args.pre)
  /\ (~thisTx.mutable /\ args.call = "assign")
       => /\ thisTx._raw = args.pre._raw
          /\ thisTx._hash = args.pre._hash
  /\ args.call = "refresh"
       => thisTx._raw = NoBytes /\ thisTx._hash = NoHash /\ thisTx._hhash = NoBytes
  /\ thisTx.mutable
       => /\ thisTx._hash = NoHash /\ thisTx._hhash = NoBytes
          /\ thisTx._raw = NoBytes /\ thisTx._size = -1
          /\ args.call \in Reads
               => /\ ret.value = Fresh(thisTx, args.call, args.enc)
                  /\ args.call # "getSize" => ret.serialized

\* An immutable transaction whose field was assigned after its hash was
\* produced still answers hash() with the hash of the bytes cached before.
C12_Witness ==
  /\ ~thisTx.mutable
  /\ args.call = "hash" /\ args.enc = "raw"
  /\ ~ret.serialized
  /\ ret.value = args.pre._hash
  /\ ret.value # digest(frameNormal(thisTx))

(***************************************************************************)
(* TX.checkSanity: the context-free checks of one transaction.             *)
(***************************************************************************)
MAX_TX_SIZE == 1000000

MAX_COINBASE_SCRIPTSIG_SIZE == 100

\* The longest input and output lists drawn.
MaxIns == 2

MaxOuts == 3

\* The null outpoint: the zero hash with the highest index.
NullPrevout == Outpoint(0, SEQUENCE_FINAL)

isNull(prevout) == prevout.hash = 0 /\ prevout.index = SEQUENCE_FINAL

\* An input: its prevout and the size of its script.
Input(prevout, scriptSize) == [prevout |-> prevout, script |-> scriptSize]

\* The inputs drawn: coinbase inputs with scripts around both limits, and
\* spends of two coins, one with a script larger than a transaction may be.
SanityInputs ==
  { Input(NullPrevout, n) : n \in {1, 2, MAX_COINBASE_SCRIPTSIG_SIZE,
                                   MAX_COINBASE_SCRIPTSIG_SIZE + 1} }
    \cup { Input(Outpoint(1, 0), 0), Input(Outpoint(2, 0), 0),
           Input(Outpoint(1, 0), MAX_TX_SIZE) }

\* The output values drawn, around both ends of the range.
SanityValues == {-1, 0, 1, MAX_MONEY, MAX_MONEY + 1}

\* All sequences over S of length at most n.
SeqsUpTo(S, n) == UNION { [1..k -> S] : k \in 0..n }

\* encoding.sizeVarint(n)
sizeVarint(n) == IF n < 253 THEN 1 ELSE IF n <= 65535 THEN 3 ELSE 5

\* input.getSize(): outpoint, script with its length, sequence.
inputSize(in) == 36 + sizeVarint(in.script) + in.script + 4

\* output.getSize(): value and an empty script with its length.
outputSize(out) == 8 + sizeVarint(0)

\* getNormalSizes().size
NormalSize(t) ==
  4 + sizeVarint(Len(t.inputs))
    + SumSeq([k \in 1..Len(t.inputs) |-> inputSize(t.inputs[k])])
    + sizeVarint(Len(t.outputs))
    + SumSeq([k \in 1..Len(t.outputs) |-> outputSize(t.outputs[k])]) + 4

\* A transaction as checkSanity sees it; _size stands for the cached
\* serialization (_raw and _size are set and cleared together).
SanityTX(ins, outs, mutable, read) ==
  [inputs |-> ins, outputs |-> outs, mutable |-> mutable,
   _size |-> IF read /\ ~mutable
               THEN NormalSize([inputs |-> ins, outputs |-> outs])
             ELSE -1]

\* getSize() as checkSanity calls it: [tx, size], tx with the cache filled
\* when the object is immutable.
SizeOf(t) ==
  IF t.mutable THEN [tx |-> t, size |-> NormalSize(t)]
  ELSE IF t._size >= 0 THEN [tx |-> t, size |-> t._size]
  ELSE [tx |-> [t EXCEPT !._size = NormalSize(t)], size |-> NormalSize(t)]

\* isCoinbase()
isCoinbase(t) == Len(t.inputs) = 1 /\ isNull(t.inputs[1].prevout)

\* The loop over the outputs, from output k with the total before it: the
\* reason of the first test that fails, or "valid".
RECURSIVE OutputLoop(_, _, _)
OutputLoop(outs, k, total) ==
  IF k > Len(outs) THEN "valid"
  ELSE IF outs[k] < 0 THEN "bad-txns-vout-negative"
  ELSE IF outs[k] > MAX_MONEY THEN "bad-txns-vout-toolarge"
  ELSE IF total + outs[k] < 0 \/ total + outs[k] > MAX_MONEY
    THEN "bad-txns-txouttotal-toolarge"
  ELSE OutputLoop(outs, k + 1, total + outs[k])

\* The loop over the inputs with the set of prevouts seen.
hasDuplicate(ins) ==
  \E i, j \in 1..Len(ins) : i < j /\ ins[i].prevout = ins[j].prevout

\* (mutant) a coinbase script of one byte is accepted.
CoinbaseLengthFrom1(size) == size < 1 \/ size > MAX_COINBASE_SCRIPTSIG_SIZE

\* size < 2 || size > consensus.MAX_COINBASE_SCRIPTSIG_SIZE
CoinbaseLength(size) == size < 2 \/ size > MAX_COINBASE_SCRIPTSIG_SIZE

\* The checks after the size check; r is the result of the output loop.
AfterSize(t, r) ==
  IF r # "valid" THEN <<FALSE, r, 100>>
  ELSE IF hasDuplicate(t.inputs) THEN <<FALSE, "bad-txns-inputs-duplicate", 100>>
  ELSE IF isCoinbase(t)
    THEN IF CoinbaseLength(t.inputs[1].script)
           THEN <<FALSE, "bad-cb-length", 100>>
         ELSE <<TRUE, "valid", 0>>
  ELSE IF \E k \in 1..Len(t.inputs) : isNull(t.inputs[k].prevout)
    THEN <<FALSE, "bad-txns-prevout-null", 10>>
  ELSE <<TRUE, "valid", 0>>

\* checkSanity(): [tx, result], tx being the object after the call; s is the
\* result of getSize().
SanityWithSize(t, s) ==
  IF s.size > MAX_TX_SIZE
    THEN [tx |-> s.tx, result |-> <<FALSE, "bad-txns-oversize", 100>>]
  ELSE [tx |-> s.tx, result |-> AfterSize(t, OutputLoop(t.outputs, 1, 0))]

checkSanity(t) ==
  IF Len(t.inputs) = 0
    THEN [tx |-> t, result |-> <<FALSE, "bad-txns-vin-empty", 100>>]
  ELSE IF Len(t.outputs) = 0
    THEN [tx |-> t, result |-> <<FALSE, "bad-txns-vout-empty", 100>>]
  ELSE SanityWithSize(t, SizeOf(t))

InitSanity ==
  /\ InitRest
  /\ \E ins \in SeqsUpTo(SanityInputs, MaxIns), outs \in SeqsUpTo(SanityValues, MaxOuts),
        m \in BOOLEAN, read \in BOOLEAN :
       thisTx = SanityTX(ins, outs, m, read)
  /\ thisBlock = << >>
  /\ args = << >>
  /\ ret = << >>

CheckSanity ==
  /\ ret = << >>
  /\ args' = thisTx
  /\ thisTx' = checkSanity(thisTx).tx
  /\ ret' = checkSanity(thisTx).result
  /\ UNCHANGED <<restVars, thisBlock>>

NextSanity == CheckSanity

SpecSanity == InitSanity /\ [][NextSanity]_vars

\* The value of the outputs up to output k.
RunningTotal(outs, k) == SumSeq(SubSeq(outs, 1, k))

InRange(v) == v >= 0 /\ v <= MAX_MONEY

\* The conditions under which a transaction is sane.
SaneShape(t) ==
  /\ Len(t.inputs) >= 1
  /\ Len(t.outputs) >= 1
  /\ NormalSize(t) <= MAX_TX_SIZE

SaneOutputs(t) ==
  /\ \A k \in 1..Len(t.outputs) : InRange(t.outputs[k])
  /\ \A k \in 1..Len(t.outputs) : InRange(RunningTotal(t.outputs, k))

SaneInputs(t) ==
  /\ ~hasDuplicate(t.inputs)
  /\ \/ /\ isCoinbase(t)
        /\ t.inputs[1].script >= 2
        /\ t.inputs[1].script <= MAX_COINBASE_SCRIPTSIG_SIZE
     \/ /\ ~isCoinbase(t)
        /\ \A k \in 1..Len(t.inputs) : ~isNull(t.inputs[k].prevout)

Sane(t) == SaneShape(t) /\ SaneOutputs(t) /\ SaneInputs(t)

\* The reason of the value of one output.
ValueReason(v) ==
  IF v < 0 THEN "bad-txns-vout-negative" ELSE "bad-txns-vout-toolarge"

\* The first output whose value or whose running total is out of range.
FirstBadOutput(outs) ==
  CHOOSE k \in 1..Len(outs) :
    /\ ~InRange(outs[k]) \/ ~InRange(RunningTotal(outs, k))
    /\ \A j \in 1..(k - 1) : InRange(outs[j]) /\ InRange(RunningTotal(outs, j))

\* The first output whose value is out of range.
FirstBadValue(outs) ==
  CHOOSE k \in 1..Len(outs) :
    ~InRange(outs[k]) /\ \A j \in 1..(k - 1) : InRange(outs[j])

\* The reason when the checks on the outputs are made output by output:
\* value, then running total, of the first output, then of the next.
ByOutputReason(outs) ==
  IF ~InRange(outs[FirstBadOutput(outs)])
    THEN ValueReason(outs[FirstBadOutput(outs)])
  ELSE "bad-txns-txouttotal-toolarge"

\* The reason when every value is checked before any running total.
ByCheckReason(outs) ==
  IF \E k \in 1..Len(outs) : ~InRange(outs[k])
    THEN ValueReason(outs[FirstBadValue(outs)])
  ELSE "bad-txns-txouttotal-toolarge"

\* The reason of the checks on the inputs.
InputReason(t) ==
  IF hasDuplicate(t.inputs) THEN "bad-txns-inputs-duplicate"
  ELSE IF isCoinbase(t) THEN "bad-cb-length"
  ELSE "bad-txns-prevout-null"

\* The reason of the first failing condition of a transaction that is not
\* sane, outputReason being the reason of its outputs.
FirstReason(t, outputReason) ==
  IF Len(t.inputs) = 0 THEN "bad-txns-vin-empty"
  ELSE IF Len(t.outputs) = 0 THEN "bad-txns-vout-empty"
  ELSE IF NormalSize(t) > MAX_TX_SIZE THEN "bad-txns-oversize"
  ELSE IF ~SaneOutputs(t) THEN outputReason
  ELSE InputReason(t)

\* checkSanity leaves the fields alone; the one thing it may do to the
\* object is to fill the empty cache of an immutable one with its size.
FieldsKept ==
  /\ thisTx.inputs = args.inputs
  /\ thisTx.outputs = args.outputs
  /\ thisTx.mutable = args.mutable
  /\ thisTx._size # args._size
       => ~args.mutable /\ args._size = -1 /\ thisTx._size = NormalSize(args)

\* C13 (as stated): checkSanity returns (true, 'valid', 0) exactly when the
\* transaction is sane, otherwise false with the reason of the first failing
\* check, all output values being checked before the running totals; it never
\* changes the transaction.
C13_AsStated ==
  ret # << >> =>
    /\ ret = <<TRUE, "valid", 0>> <=> Sane(args)
    /\ ~Sane(args) =>
         /\ ret[1] = FALSE
         /\ ret[2] = FirstReason(args, ByCheckReason(args.outputs))
    /\ FieldsKept

\* C13 (amended): checkSanity returns (true, 'valid', 0) exactly when the
\* transaction is sane, otherwise false with the reason of the first failing
\* check, the outputs being checked one by one: the value, then the running
\* total, of an output before the value of the next; it never changes the
\* fields of the transaction.
C13_CheckSanity ==
  ret # << >> =>
    /\ ret = <<TRUE, "valid", 0>> <=> Sane(args)
    /\ ~Sane(args) =>
         /\ ret[1] = FALSE
         /\ ret[2] = FirstReason(args, ByOutputReason(args.outputs))
         /\ ret[3] = IF ret[2] = "bad-txns-prevout-null" THEN 10 ELSE 100
    /\ FieldsKept

\* A running total leaves the range at an output that precedes a negative
\* output: the reason is that of the total.
C13_Witness ==
  /\ ret # << >>
  /\ Len(args.outputs) = 3
  /\ args.outputs[3] < 0
  /\ ret = <<FALSE, "bad-txns-txouttotal-toolarge", 100>>

(***************************************************************************)
(* TX.checkInputs on one transaction, one view and one height.             *)
(***************************************************************************)
\* The outpoints a transaction may spend; the view never holds the last.
SpendablePrevouts == { Outpoint(1, 0), Outpoint(2, 0), Outpoint(3, 0) }

ViewPrevouts == { Outpoint(1, 0), Outpoint(2, 0) }

\* The entries a view may hold: values around both ends of the range, and
\* coinbase entries one block apart.
ViewCoins ==
  { Coin(v, 0, FALSE) : v \in {-1, 1, 2, MAX_MONEY, MAX_MONEY + 1} }
    \cup { Coin(v, h, TRUE) : v \in {1, MAX_MONEY + 1}, h \in {0, 1} }

\* The views: each outpoint absent or holding one entry.
Views ==
  UNION { [D -> ViewCoins] : D \in SUBSET ViewPrevouts }

\* The heights a transaction is spent at: the first at which a coinbase of
\* height 0 is mature, and the next.
SpendHeights == { COINBASE_MATURITY, COINBASE_MATURITY + 1 }

\* The transactions checked: they have passed checkSanity, so they have an
\* input, no input twice, and output values and totals in range.
NoRepeat(ins) == \A i, j \in 1..Len(ins) : i # j => ins[i] # ins[j]

SpendingTxs ==
  { ChainTx(0, ins, outs) :
      ins \in { i \in SeqsUpTo(SpendablePrevouts, MaxIns) : Len(i) >= 1 /\ NoRepeat(i) },
      outs \in { o \in SeqsUpTo({0, 1, 3, MAX_MONEY}, MaxOuts) :
                   Len(o) >= 1 /\ InRange(SumSeq(o)) } }

InitInputs ==
  /\ InitRest
  /\ thisTx \in SpendingTxs
  /\ thisBlock = << >>
  /\ \E view \in Views, height \in SpendHeights :
       args = [view |-> view, height |-> height]
  /\ ret = << >>

\* tx.checkInputs(view, height); the view is only read.
CheckInputs ==
  /\ ret = << >>
  /\ ret' = checkInputs(thisTx, args.view, args.height)
  /\ UNCHANGED <<restVars, thisTx, thisBlock, args>>

\* tx.verifyInputs(view, height)
VerifyInputs ==
  /\ ret = << >>
  /\ ret' = [verified |-> checkInputs(thisTx, args.view, args.height).fee # -1]
  /\ UNCHANGED <<restVars, thisTx, thisBlock, args>>

NextInputs == CheckInputs \/ VerifyInputs

SpecInputs == InitInputs /\ [][NextInputs]_vars

\* The value of the entries of the inputs up to input k, all resolved.
InputSum(tx, view, k) == SumSeq([i \in 1..k |-> view[tx.inputs[i]].value])

\* What one input needs: an entry, mature if a coinbase, with its value and
\* the running total in range.
Resolves(tx, view, k) == tx.inputs[k] \in DOMAIN view

Mature(tx, view, height, k) ==
  view[tx.inputs[k]].coinbase
    => height >= view[tx.inputs[k]].height + COINBASE_MATURITY

ValuesInRange(tx, view, k) ==
  InRange(view[tx.inputs[k]].value) /\ InRange(InputSum(tx, view, k))

InputOk(tx, view, height, k) ==
  /\ \A i \in 1..k : Resolves(tx, view, i)
  /\ Mature(tx, view, height, k)
  /\ ValuesInRange(tx, view, k)

InputsOk(tx, view, height) ==
  /\ \A k \in 1..Len(tx.inputs) : InputOk(tx, view, height, k)
  /\ InputSum(tx, view, Len(tx.inputs)) >= SumSeq(tx.outputs)

\* The first input that fails, and the reason of its first failing check.
FirstBadInput(tx, view, height) ==
  CHOOSE k \in 1..Len(tx.inputs) :
    /\ ~InputOk(tx, view, height, k)
    /\ \A j \in 1..(k - 1) : InputOk(tx, view, height, j)

BadInputReason(tx, view, height, k) ==
  IF ~Resolves(tx, view, k) THEN "bad-txns-inputs-missingorspent"
  ELSE IF ~Mature(tx, view, height, k) THEN "bad-txns-premature-spend-of-coinbase"
  ELSE "bad-txns-inputvalues-outofrange"

FailReason(tx, view, height) ==
  IF \E k \in 1..Len(tx.inputs) : ~InputOk(tx, view, height, k)
    THEN BadInputReason(tx, view, height, FirstBadInput(tx, view, height))
  ELSE "bad-txns-in-belowout"

\* What a finished call has returned, against the conditions above.
C14_Result ==
  /\ (ret # << >> /\ "fee" \in DOMAIN ret) =>
       /\ ret.reason = "valid" <=> InputsOk(thisTx, args.view, args.height)
       /\ ret.reason = "valid" =>
            /\ ret.fee = InputSum(thisTx, args.view, Len(thisTx.inputs))
                           - SumSeq(thisTx.outputs)
            /\ InRange(ret.fee)
            /\ ret.score = 0
       /\ ret.reason # "valid" =>
            /\ ret.fee = -1
            /\ ret.reason = FailReason(thisTx, args.view, args.height)
  /\ (ret # << >> /\ "verified" \in DOMAIN ret) =>
       (ret.verified <=> InputsOk(thisTx, args.view, args.height))

MAX_BLOCK_SIGOPS_PER_MB == 20000

\* The longest list of transactions drawn for a block.
MaxBody == 3

\* A transaction of a block: what checkSanity looks at, and the count
\* getLegacySigops() gives for its scripts.
BlockTx(ins, outs, sigops) ==
  [inputs |-> ins, outputs |-> outs, mutable |-> FALSE, _size |-> -1,
   sigops |-> sigops]

\* The transactions drawn: two coinbases, one with a script too short; a
\* spend; a spend with a negative output; a spend with as many signature
\* operations as one megabyte may hold; the same with a script that fills a
\* megabyte; and a spend larger than a block may be.
CB == BlockTx(<<Input(NullPrevout, 2)>>, <<BASE_REWARD>>, 0)

CBShort == BlockTx(<<Input(NullPrevout, 1)>>, <<BASE_REWARD>>, 0)

N1 == BlockTx(<<Input(Outpoint(1, 0), 0)>>, <<1>>, 1)

NNeg == BlockTx(<<Input(Outpoint(2, 0), 0)>>, <<-1>>, 0)

NSig == BlockTx(<<Input(Outpoint(3, 0), 0)>>, <<1>>, MAX_BLOCK_SIGOPS_PER_MB)

NBig == BlockTx(<<Input(Outpoint(4, 0), MAX_TX_SIZE - 1000)>>, <<1>>,
                MAX_BLOCK_SIGOPS_PER_MB)

NHuge == BlockTx(<<Input(Outpoint(5, 0), MAX_FORK_BLOCK_SIZE)>>, <<1>>, 0)

BlockTxs == {CB, CBShort, N1, NNeg, NSig, NBig, NHuge}

\* tx.hash() of a transaction of a block: a number computed from its fields.
inputDigest(in) ==
  in.prevout.hash * 7 + (in.prevout.index % 13) + (in.script % 1009)

leafHash(t) ==
  (SumSeq([k \in 1..Len(t.inputs) |-> inputDigest(t.inputs[k]) * (2 * k + 1)])
     + SumSeq([k \in 1..Len(t.outputs) |-> (t.outputs[k] + 2) * (2 * k + 3)])
     + (t.sigops % 1013) + 17) % 65521

\* The hash of two nodes of the merkle tree.
hashPair(left, right) == (left * 31 + right * 17 + 1) % 65521

\* The level above a level of the tree: the last node of an odd level is
\* paired with itself.
LevelAbove(nodes) ==
  [i \in 1..((Len(nodes) + 1) \div 2) |->
     hashPair(nodes[2 * i - 1],
              nodes[IF 2 * i <= Len(nodes) THEN 2 * i ELSE 2 * i - 1])]

RECURSIVE RootOf(_)
RootOf(nodes) == IF Len(nodes) = 1 THEN nodes[1] ELSE RootOf(LevelAbove(nodes))

\* Two sibling leaves are identical, other than the last leaf of an odd
\* level paired with itself.
Malleated(leaves) ==
  \E i \in 1..(Len(leaves) \div 2) : leaves[2 * i - 1] = leaves[2 * i]

\* merkle.createRoot(hash256, leaves): [root, malleated]
createRoot(leaves) ==
  [root |-> IF Len(leaves) = 0 THEN 0 ELSE RootOf(leaves),
   malleated |-> Malleated(leaves)]

\* The value that stands for a null root.
NoRoot == -1

\* (mutant) the root is returned also when the tree is malleated.
MerkleOfAny(r) == r.root

\* createMerkleRoot(): the root, or null when the tree is malleated.
MerkleOf(r) == IF r.malleated THEN NoRoot ELSE r.root

createMerkleRoot(b) ==
  MerkleOf(createRoot([k \in 1..Len(b.txs) |-> leafHash(b.txs[k])]))

\* Block.getSize(): the header, the count and the transactions.
blockSize(b) ==
  80 + sizeVarint(Len(b.txs))
     + SumSeq([k \in 1..Len(b.txs) |-> NormalSize(b.txs[k])])

\* (x / y | 0): the quotient with its fraction dropped, towards zero.
truncDiv(x, y) == IF x >= 0 THEN x \div y ELSE -((-x) \div y)

\* consensus.maxBlockSigops(size)
maxBlockSigops(size) == (1 + truncDiv(size - 1, 1000000)) * MAX_BLOCK_SIGOPS_PER_MB

\* (mutant) a coinbase after the first transaction is not refused.
LaterCoinbaseAllowed(b, i) == FALSE

\* i > 0 && tx.isCoinbase(), i counted from 1 here.
LaterCoinbase(b, i) == i > 1 /\ isCoinbase(b.txs[i])

\* The loop of checkBody over the transactions from position i on, sigops
\* being the count so far and sane the result of checkSanity on txs[i].
RECURSIVE TxLoop(_, _, _, _)
TxLoopStep(b, size, i, sigops, sane) ==
  IF LaterCoinbase(b, i) THEN <<FALSE, "bad-cb-multiple", 100>>
  ELSE IF ~sane[1] THEN sane
  ELSE IF sigops + b.txs[i].sigops > maxBlockSigops(size)
    THEN <<FALSE, "bad-blk-sigops", 100>>
  ELSE TxLoop(b, size, i + 1, sigops + b.txs[i].sigops)

TxLoop(b, size, i, sigops) ==
  IF i > Len(b.txs) THEN <<TRUE, "valid", 0>>
  ELSE TxLoopStep(b, size, i, sigops, checkSanity(b.txs[i]).result)

\* The merkle checks of checkBody and what follows them; root is the result
\* of createMerkleRoot().
AfterCoinbase(b, root) ==
  IF root = NoRoot THEN <<FALSE, "bad-txns-duplicate", 100>>
  ELSE IF b.merkleRoot # root THEN <<FALSE, "bad-txnmrklroot", 100>>
  ELSE TxLoop(b, blockSize(b), 1, 0)

\* Block.checkBody(): [valid, reason, score]
checkBody(b) ==
  IF \/ Len(b.txs) = 0
     \/ Len(b.txs) > MAX_FORK_BLOCK_SIZE \div 10
     \/ blockSize(b) > MAX_FORK_BLOCK_SIZE
    THEN <<FALSE, "bad-blk-length", 100>>
  ELSE IF Len(b.txs) = 0 \/ ~isCoinbase(b.txs[1])
    THEN <<FALSE, "bad-cb-missing", 100>>
  ELSE AfterCoinbase(b, createMerkleRoot(b))

\* The merkle roots a header is drawn with: the root of the transactions,
\* and another.
HeaderRoots(txs) ==
  { createRoot([k \in 1..Len(txs) |-> leafHash(txs[k])]).root,
    (createRoot([k \in 1..Len(txs) |-> leafHash(txs[k])]).root + 1) % 65521 }

\* The sizes maxBlockSigops is asked about, around each megabyte.
BlockSizes ==
  { 0, 1, 1000000 - 1, 1000000, 1000000 + 1,
    2 * 1000000, 2 * 1000000 + 1, MAX_FORK_BLOCK_SIZE }

InitBody ==
  /\ InitRest
  /\ thisTx = << >>
  /\ \E txs \in SeqsUpTo(BlockTxs, MaxBody) : \E root \in HeaderRoots(txs) :
       thisBlock = [txs |-> txs, merkleRoot |-> root]
  /\ args \in BlockSizes
  /\ ret = << >>

\* block.checkBody()
CheckBody ==
  /\ ret = << >>
  /\ ret' = [call |-> "checkBody", result |-> checkBody(thisBlock)]
  /\ UNCHANGED <<restVars, thisTx, thisBlock, args>>

\* consensus.maxBlockSigops(size)
MaxBlockSigops ==
  /\ ret = << >>
  /\ ret' = [call |-> "maxBlockSigops", result |-> maxBlockSigops(args)]
  /\ UNCHANGED <<restVars, thisTx, thisBlock, args>>

NextBody == CheckBody \/ MaxBlockSigops

SpecBody == InitBody /\ [][NextBody]_vars

\* checkBody has been called on thisBlock.
BodyChecked == ret # << >> /\ ret.call = "checkBody"

\* The first test of checkBody, on the number and the size of the
\* transactions, passes.
LengthOk(b) ==
  /\ Len(b.txs) > 0
  /\ Len(b.txs) <= MAX_FORK_BLOCK_SIZE \div 10
  /\ blockSize(b) <= MAX_FORK_BLOCK_SIZE

\* The merkle root of the transactions is not malleated and is the header's.
MerkleOk(b) ==
  /\ ~Malleated([k \in 1..Len(b.txs) |-> leafHash(b.txs[k])])
  /\ RootOf([k \in 1..Len(b.txs) |-> leafHash(b.txs[k])]) = b.merkleRoot

\* The legacy signature operations of the transactions up to position i.
SigopsUpTo(b, i) == SumSeq([k \in 1..i |-> b.txs[k].sigops])

\* Transaction i passes the loop of checkBody: it is no later coinbase, it
\* is sane, and the count up to it is within the cap.
PassesLoop(b, i) ==
  /\ ~(i > 1 /\ isCoinbase(b.txs[i]))
  /\ Sane(b.txs[i])
  /\ SigopsUpTo(b, i) <= maxBlockSigops(blockSize(b))

\* What checkBody accepts as to coinbases and sanity.
CoinbaseFirstOnly(b) ==
  /\ Len(b.txs) > 0
  /\ isCoinbase(b.txs[1])
  /\ \A i \in 2..Len(b.txs) : ~isCoinbase(b.txs[i])
  /\ \A i \in 1..Len(b.txs) : Sane(b.txs[i])

\* C15 (as stated): an accepted block has a coinbase first and nowhere else
\* and only sane transactions; a non-empty block whose first transaction is
\* no coinbase is rejected with 'bad-cb-missing'; a block with a coinbase
\* after the first transaction and a valid merkle root is rejected with
\* 'bad-cb-multiple'.
C15_AsStated ==
  BodyChecked =>
    /\ ret.result[1] => CoinbaseFirstOnly(thisBlock)
    /\ (Len(thisBlock.txs) > 0 /\ ~isCoinbase(thisBlock.txs[1]))
         => ret.result = <<FALSE, "bad-cb-missing", 100>>
    /\ ((\E i \in 2..Len(thisBlock.txs) : isCoinbase(thisBlock.txs[i]))
          /\ MerkleOk(thisBlock))
         => ret.result = <<FALSE, "bad-cb-multiple", 100>>

\* C15 (amended): an accepted block has a coinbase first and nowhere else
\* and only sane transactions; a block that passes the length test and whose
\* first transaction is no coinbase is rejected with 'bad-cb-missing'; a
\* block that passes the length test, starts with a coinbase, has a valid
\* merkle root and has a coinbase at a position i after the first is
\* rejected with 'bad-cb-multiple' when every transaction before i passes
\* the loop, and with the reason of an earlier transaction otherwise.
C15_CoinbaseFirst ==
  BodyChecked =>
    /\ ret.result[1] => CoinbaseFirstOnly(thisBlock)
    /\ (LengthOk(thisBlock) /\ ~isCoinbase(thisBlock.txs[1]))
         => ret.result = <<FALSE, "bad-cb-missing", 100>>
    /\ \A i \in 2..Len(thisBlock.txs) :
         (/\ LengthOk(thisBlock) /\ isCoinbase(thisBlock.txs[1])
          /\ MerkleOk(thisBlock)
          /\ isCoinbase(thisBlock.txs[i])
          /\ \A j \in 2..(i - 1) : ~isCoinbase(thisBlock.txs[j]))
           => /\ ~ret.result[1]
              /\ (\A j \in 1..(i - 1) : PassesLoop(thisBlock, j))
                   <=> ret.result = <<FALSE, "bad-cb-multiple", 100>>

\* A block with a sane coinbase first, a sane spend, and a second coinbase.
C15_Witness ==
  /\ BodyChecked
  /\ Len(thisBlock.txs) = 3
  /\ isCoinbase(thisBlock.txs[3]) /\ ~isCoinbase(thisBlock.txs[2])
  /\ ret.result = <<FALSE, "bad-cb-multiple", 100>>

\* The tree of the transactions is malleated.
MalleatedBody(b) == Malleated([k \in 1..Len(b.txs) |-> leafHash(b.txs[k])])

\* C16 (as stated): an accepted block has a merkle root that is not malleated
\* and equals the header's; a malleated tree is rejected with
\* 'bad-txns-duplicate' and a root that differs from the header's with
\* 'bad-txnmrklroot', both with score 100.
C16_AsStated ==
  (BodyChecked /\ Len(thisBlock.txs) > 0) =>
    /\ ret.result[1] => MerkleOk(thisBlock)
    /\ MalleatedBody(thisBlock) => ret.result = <<FALSE, "bad-txns-duplicate", 100>>
    /\ (~MalleatedBody(thisBlock) /\ ~MerkleOk(thisBlock))
         => ret.result = <<FALSE, "bad-txnmrklroot", 100>>

\* C16 (amended): an accepted block has a merkle root that is not malleated
\* and equals the header's; a block that passes the length test and starts
\* with a coinbase is rejected with 'bad-txns-duplicate' when its tree is
\* malleated, whatever the header's root, and with 'bad-txnmrklroot' when
\* its tree is not malleated and its root differs from the header's, both
\* with score 100.
C16_MerkleRoot ==
  BodyChecked =>
    /\ ret.result[1] => MerkleOk(thisBlock)
    /\ (LengthOk(thisBlock) /\ isCoinbase(thisBlock.txs[1]))
         => /\ MalleatedBody(thisBlock)
                 <=> ret.result = <<FALSE, "bad-txns-duplicate", 100>>
            /\ (~MalleatedBody(thisBlock) /\ ~MerkleOk(thisBlock))
                 <=> ret.result = <<FALSE, "bad-txnmrklroot", 100>>

\* A block of two identical transactions whose header holds the root of
\* the two: its two sibling leaves are identical.
C16_Witness ==
  /\ BodyChecked
  /\ Len(thisBlock.txs) = 2
  /\ thisBlock.txs[1] = thisBlock.txs[2]
  /\ thisBlock.merkleRoot = RootOf([k \in 1..2 |-> leafHash(thisBlock.txs[k])])
  /\ ret.result = <<FALSE, "bad-txns-duplicate", 100>>

\* ceil(size / 1,000,000) * MAX_BLOCK_SIGOPS_PER_MB, for size >= 0.
CeilCap(size) == ((size + 1000000 - 1) \div 1000000) * MAX_BLOCK_SIGOPS_PER_MB

\* The loop of checkBody is reached.
ReachesLoop(b) == LengthOk(b) /\ isCoinbase(b.txs[1]) /\ MerkleOk(b)

\* Transaction i is tested for its signature operations: it and those
\* before it are sane and no later coinbase, and the count before it was
\* within the cap.
SigopsTested(b, i) ==
  /\ \A j \in 1..i : ~(j > 1 /\ isCoinbase(b.txs[j])) /\ Sane(b.txs[j])
  /\ \A j \in 1..(i - 1) : SigopsUpTo(b, j) <= CeilCap(blockSize(b))

\* C17: maxBlockSigops(size) is ceil(size / 1,000,000) times
\* MAX_BLOCK_SIGOPS_PER_MB for every size >= 0, and checkBody rejects with
\* 'bad-blk-sigops' at the first transaction at which the count of legacy
\* signature operations exceeds that cap for the size of the block.
C17_SigopsCap ==
  /\ (ret # << >> /\ ret.call = "maxBlockSigops") => ret.result = CeilCap(args)
  /\ (BodyChecked /\ ReachesLoop(thisBlock)) =>
       /\ \A i \in 1..Len(thisBlock.txs) :
            (/\ SigopsTested(thisBlock, i)
             /\ SigopsUpTo(thisBlock, i) > CeilCap(blockSize(thisBlock)))
              => ret.result = <<FALSE, "bad-blk-sigops", 100>>
       /\ ret.result[2] = "bad-blk-sigops"
            => \E i \in 1..Len(thisBlock.txs) :
                 SigopsUpTo(thisBlock, i) > CeilCap(blockSize(thisBlock))

\* The same with the sizes a block can have, which start at one byte.
C17_FromOneByte ==
  /\ (ret # << >> /\ ret.call = "maxBlockSigops" /\ args >= 1)
       => ret.result = CeilCap(args)
  /\ (BodyChecked /\ ReachesLoop(thisBlock)) =>
       /\ \A i \in 1..Len(thisBlock.txs) :
            (/\ SigopsTested(thisBlock, i)
             /\ SigopsUpTo(thisBlock, i) > CeilCap(blockSize(thisBlock)))
              => ret.result = <<FALSE, "bad-blk-sigops", 100>>
       /\ ret.result[2] = "bad-blk-sigops"
            => \E i \in 1..Len(thisBlock.txs) :
                 SigopsUpTo(thisBlock, i) > CeilCap(blockSize(thisBlock))

\* maxBlockSigops was asked about size 0 and allowed one megabyte's worth.
C17_Witness ==
  /\ ret # << >> /\ ret.call = "maxBlockSigops"
  /\ args = 0
  /\ ret.result = MAX_BLOCK_SIGOPS_PER_MB

(***************************************************************************)
(* consensus.getReward: the subsidy of a block by its height.              *)
(*                                                                         *)
(* Amounts are in satoshis here and exceed 32 bits, so an amount is a      *)
(* pair: whole coins, and the satoshis below one coin.                     *)
(***************************************************************************)
COIN == 100000000

\* The eras walked: the subsidy is zero from era 33 on.
MaxEra == 34

\* The amount of c coins and s satoshis, s below one coin.
Amt(c, s) == [coins |-> c, sats |-> s]

AddAmt(x, y) ==
  Amt(x.coins + y.coins + (x.sats + y.sats) \div COIN, (x.sats + y.sats) % COIN)

\* x - y for x >= y.
SubAmt(x, y) ==
  IF x.sats >= y.sats THEN Amt(x.coins - y.coins, x.sats - y.sats)
  ELSE Amt(x.coins - y.coins - 1, x.sats + COIN - y.sats)

LeqAmt(x, y) == x.coins < y.coins \/ (x.coins = y.coins /\ x.sats <= y.sats)

\* Math.floor(x / 2)
HalfAmt(x) == Amt(x.coins \div 2, ((x.coins % 2) * COIN + x.sats) \div 2)

\* n * x, by doubling.
RECURSIVE MulAmt(_, _)
Doubled(x) == AddAmt(x, x)

MulAmt(x, n) ==
  IF n = 0 THEN Amt(0, 0)
  ELSE IF n % 2 = 0 THEN Doubled(MulAmt(x, n \div 2))
  ELSE AddAmt(x, Doubled(MulAmt(x, n \div 2)))

\* exports.BASE_REWARD = 50 * exports.COIN
BaseReward == Amt(BASE_REWARD, 0)

\* exports.HALF_REWARD = Math.floor(exports.BASE_REWARD / 2)
HalfReward == HalfAmt(BaseReward)

\* exports.MAX_MONEY = 21000000 * exports.COIN
MaxMoney == Amt(MAX_MONEY, 0)

\* 2^32 satoshis.
TwoTo32 == Amt(42, 94967296)

\* ToUint32 of an amount below 2^33: the operand of >>> keeps 32 bits.
ToUint32(x) == IF LeqAmt(TwoTo32, x) THEN SubAmt(x, TwoTo32) ELSE x

\* Floor halving k times.
RECURSIVE HalvedTimes(_, _)
HalvedTimes(x, k) == IF k = 0 THEN x ELSE HalvedTimes(HalfAmt(x), k - 1)

\* x >>> k: 32 bits of x shifted by the low five bits of k.
ushr(x, k) == HalvedTimes(ToUint32(x), k % 32)

\* (mutant) the base reward is shifted by the number of halvings.
ShiftedBase(halvings) == ushr(BaseReward, halvings)

\* exports.HALF_REWARD >>> (halvings - 1)
ShiftedHalf(halvings) == ushr(HalfReward, halvings - 1)

\* (mutant) the reward is shifted however many halvings there are.
RewardOfAnyShift(halvings) ==
  IF halvings = 0 THEN BaseReward ELSE ShiftedHalf(halvings)

\* The reward by the number of halvings.
RewardOf(halvings) ==
  IF halvings >= 33 THEN Amt(0, 0)
  ELSE IF halvings = 0 THEN BaseReward
  ELSE ShiftedHalf(halvings)

\* consensus.getReward(height, interval)
getReward(height, interval) == RewardOf(height \div interval)

\* The halving intervals drawn: small ones, whose heights are walked one by
\* one, and those of the regtest and main networks.
SmallIntervals == {1, 2, 3}

Intervals == SmallIntervals \cup {150, 210000}

\* The call getReward(height, interval) with its result, the result for the
\* height before (the same for height 0), and the sum of the results from
\* height 0 on.
RewardCall(interval, height, prev, sum) ==
  /\ args' = [interval |-> interval, height |-> height]
  /\ ret' = [reward |-> getReward(height, interval), prev |-> prev,
             total |-> AddAmt(sum, getReward(height, interval))]

InitReward ==
  /\ InitRest
  /\ thisTx = << >>
  /\ thisBlock = << >>
  /\ \E interval \in Intervals :
       /\ args = [interval |-> interval, height |-> 0]
       /\ ret = [reward |-> getReward(0, interval), prev |-> getReward(0, interval),
                 total |-> getReward(0, interval)]

\* The next height: every height of a small interval, and the step from the
\* last height of an era to the first of the next of a large one.
RewardNext ==
  /\ args.height + 1 < (MaxEra + 1) * args.interval
  /\ args.interval \in SmallIntervals \/ (args.height + 1) % args.interval = 0
  /\ RewardCall(args.interval, args.height + 1, ret.reward, ret.total)
  /\ UNCHANGED <<restVars, thisTx, thisBlock>>

\* From the first height of an era of a large interval to its last: the
\* heights between have the same number of halvings, so each adds the same
\* reward.
RewardEra ==
  /\ args.interval \notin SmallIntervals
  /\ args.height % args.interval = 0
  /\ RewardCall(args.interval, args.height + args.interval - 1, ret.reward,
                AddAmt(ret.total, MulAmt(ret.reward, args.interval - 2)))
  /\ UNCHANGED <<restVars, thisTx, thisBlock>>

NextReward == RewardNext \/ RewardEra

SpecReward == InitReward /\ [][NextReward]_vars

\* The number of halvings at the height of the last call.
Halvings == args.height \div args.interval

\* C18: with halvings = floor(height / interval), getReward is 0 from 33
\* halvings on, BASE_REWARD with none, and HALF_REWARD halved (halvings - 1)
\* times, each time rounding down, between; it is never negative and is
\* never more than at the height before.
C18_RewardSchedule ==
  /\ Halvings >= 33 => ret.reward = Amt(0, 0)
  /\ Halvings = 0 => ret.reward = Amt(BASE_REWARD, 0)
  /\ (Halvings >= 1 /\ Halvings < 33)
       => ret.reward = HalvedTimes(HalfAmt(Amt(BASE_REWARD, 0)), Halvings - 1)
  /\ ret.reward.coins >= 0 /\ ret.reward.sats >= 0
  /\ LeqAmt(ret.reward, ret.prev)

\* The last era with a subsidy: one satoshi, after 25 coins at the first
\* halving.
C18_Witness ==
  /\ args.interval = 210000
  /\ Halvings = 32
  /\ ret.reward = Amt(0, 1)
  /\ ret.prev = Amt(0, 1)

\* The sum of the rewards of all heights: interval times the sum of the
\* rewards of the 33 eras, which is 99.99999989 coins.
EraRewards == Amt(99, 99999989)

\* C19 (as stated): every reward is 0 once there are 33 halvings, and the
\* sum of the rewards of all heights is 21,000,000 * COIN.
C19_AsStated ==
  Halvings >= 33 =>
    /\ ret.reward = Amt(0, 0)
    /\ ret.total = Amt(21000000, 0)

\* C19 (amended): every reward is 0 once there are 33 halvings, so the sum
\* of the rewards of all heights is finite; it is interval times
\* 9,999,999,989 satoshis, which for the interval 210,000 is
\* 2,099,999,997,690,000 satoshis, less than 21,000,000 * COIN; no partial
\* sum exceeds MAX_MONEY for an interval up to 210,000.
C19_RewardSum ==
  /\ Halvings >= 33 =>
       /\ ret.reward = Amt(0, 0)
       /\ ret.total = MulAmt(EraRewards, args.interval)
       /\ args.interval = 210000 => ret.total = Amt(20999999, 97690000)
  /\ LeqAmt(ret.total, MaxMoney) /\ ret.total # MaxMoney

\* The sum with the interval 210,000 after the last era with a subsidy.
C19_Witness ==
  /\ args.interval = 210000
  /\ Halvings = 34
  /\ ret.total = Amt(20999999, 97690000)

(***************************************************************************)
(* The compact form of a target: consensus.toCompact and fromCompact.      *)
(*                                                                         *)
(* A big number is its sign and its bytes, most significant first, with    *)
(* no leading zero; zero has no bytes.                                     *)
(***************************************************************************)
\* The most significant bytes drawn for a target.
MaxSig == 4

BN(neg, bytes) == [neg |-> neg, bytes |-> bytes]

\* The bytes a target is drawn from, and the zero bytes that follow its
\* significant bytes: up to a target of 256 bits and one byte more.
TargetBytes == {0, 1, 127, 128, 255}

ZeroTails == {0, 1, 2, 28, 29}

Zeros(n) == [k \in 1..n |-> 0]

Targets ==
  { BN(neg, sig \o Zeros(z)) :
      neg \in BOOLEAN, z \in ZeroTails,
      sig \in { q \in SeqsUpTo(TargetBytes, MaxSig) : Len(q) >= 1 /\ q[1] # 0 } }
    \cup { BN(FALSE, << >>) }

\* num.toNumber() of a number of at most three bytes.
RECURSIVE toNumber(_)
toNumber(bytes) ==
  IF Len(bytes) = 0 THEN 0
  ELSE toNumber(SubSeq(bytes, 1, Len(bytes) - 1)) * 256 + bytes[Len(bytes)]

\* new BN(n) for a number n below 2^24.
Stripped(bytes) ==
  IF \A k \in 1..Len(bytes) : bytes[k] = 0 THEN << >>
  ELSE SubSeq(bytes, CHOOSE k \in 1..Len(bytes) :
                       bytes[k] # 0 /\ \A j \in 1..(k - 1) : bytes[j] = 0,
              Len(bytes))

bytesOf(n) == Stripped(<<n \div 65536, (n \div 256) % 256, n % 256>>)

\* num.ushrn(8 * k): the lowest k bytes are dropped.
ushrnBytes(bytes, k) == SubSeq(bytes, 1, Len(bytes) - k)

\* num.iushln(8 * k): k zero bytes are appended to a number that is not zero.
iushlnBytes(bytes, k) == IF Len(bytes) = 0 THEN bytes ELSE bytes \o Zeros(k)

\* 256^k for k up to 3.
Pow256(k) == IF k = 0 THEN 1 ELSE IF k = 1 THEN 256 ELSE IF k = 2 THEN 65536 ELSE 16777216

\* The mantissa toCompact starts from: the number itself moved up to three
\* bytes, or its three most significant bytes.
FirstMantissa(bytes) ==
  IF Len(bytes) <= 3 THEN toNumber(bytes) * Pow256(3 - Len(bytes))
  ELSE toNumber(ushrnBytes(bytes, Len(bytes) - 3))

\* (mutant) the mantissa is left as it is.
KeptAsIs(mantissa, exponent) == [mantissa |-> mantissa, exponent |-> exponent]

\* if (mantissa & 0x800000) { mantissa >>= 8; exponent++; }
Normalised(mantissa, exponent) ==
  IF (mantissa \div 8388608) % 2 = 1
    THEN [mantissa |-> mantissa \div 256, exponent |-> exponent + 1]
  ELSE [mantissa |-> mantissa, exponent |-> exponent]

\* (exponent << 24) | mantissa, with 0x800000 for a negative number; the
\* exponents drawn stay below 128, so that the result keeps its 32 bits.
Packed(n, neg) ==
  n.exponent * 16777216 + n.mantissa
    + (IF neg /\ (n.mantissa \div 8388608) % 2 = 0 THEN 8388608 ELSE 0)

\* consensus.toCompact(num)
toCompact(num) ==
  IF Len(num.bytes) = 0 THEN 0
  ELSE Packed(Normalised(FirstMantissa(num.bytes), Len(num.bytes)), num.neg)

\* The number fromCompact builds from the mantissa and the exponent.
Expanded(mantissa, exponent) ==
  IF exponent <= 3 THEN bytesOf(mantissa \div Pow256(3 - exponent))
  ELSE iushlnBytes(bytesOf(mantissa), exponent - 3)

\* consensus.fromCompact(compact)
fromCompact(compact) ==
  IF compact = 0 THEN BN(FALSE, << >>)
  ELSE BN((compact \div 8388608) % 2 = 1,
          Expanded(compact % 8388608, compact \div 16777216))

InitCompact ==
  /\ InitRest
  /\ thisTx = << >>
  /\ thisBlock = << >>
  /\ args \in Targets
  /\ ret = << >>

\* bits = consensus.toCompact(target)
ToCompact ==
  /\ ret = << >>
  /\ ret' = [compact |-> toCompact(args)]
  /\ UNCHANGED <<restVars, thisTx, thisBlock, args>>

\* consensus.fromCompact(bits)
FromCompact ==
  /\ ret # << >>
  /\ "num" \notin DOMAIN ret
  /\ ret' = [compact |-> ret.compact, num |-> fromCompact(ret.compact)]
  /\ UNCHANGED <<restVars, thisTx, thisBlock, args>>

NextCompact == ToCompact \/ FromCompact

SpecCompact == InitCompact /\ [][NextCompact]_vars

\* A positive target has a compact form when nothing but zero bytes follows
\* its three most significant bytes, or its two most significant bytes if
\* the highest bit of the first is set.
Positive(num) == ~num.neg /\ Len(num.bytes) > 0

Representable(num) ==
  /\ Positive(num)
  /\ \A k \in 1..Len(num.bytes) :
       k > (IF num.bytes[1] >= 128 THEN 2 ELSE 3) => num.bytes[k] = 0

\* C20: for every positive target that has a compact form,
\* fromCompact(toCompact(t)) is t; and toCompact of a positive target never
\* has the sign bit 0x00800000 set.
C20_CompactRoundTrip ==
  /\ (ret # << >> /\ Positive(args)) => (ret.compact \div 8388608) % 2 = 0
  /\ (ret # << >> /\ "num" \in DOMAIN ret /\ Representable(args)) => ret.num = args

\* A 32-byte target whose first byte has its highest bit set comes back.
C20_Witness ==
  /\ ret # << >> /\ "num" \in DOMAIN ret
  /\ Representable(args)
  /\ Len(args.bytes) = 32
  /\ args.bytes[1] = 128
  /\ ret.num = args

(***************************************************************************)
(* Miner.assemble followed one iteration at a time: the dependency graph   *)
(* is built and the heap seeded, each step is one pass through the body of *)
(* the while loop, and the call ends once the heap is empty.               *)
(***************************************************************************)
\* How often hash h occurs in the sequence s.
CountIn(s, h) == Cardinality({k \in 1..Len(s) : s[k] = h})

\* No iteration has run yet.
NoPop == << >>

\* Lines 260-293: depMap, the heap and the phase flag.  `inserted` counts the
\* calls of queue.insert per entry, `steps` the iterations of the loop, and
\* `last` remembers the entry the last iteration shifted and the state it
\* found (all three are history, the code keeps none of them).
StartLoop(pool, opts, att) ==
  LET st == BuildGraph(SeqOf(DOMAIN pool), pool, opts, att)
  IN [pc |-> "loop", st |-> st,
      inserted |-> [h \in DOMAIN pool |-> CountIn(st.queue, h)],
      steps |-> 0, last |-> NoPop]

\* One iteration, shift() having returned queue[i].
StepLoop(pool, opts, att, lp, i) ==
  LET st1 == LoopBody(pool, opts, att, lp.st, i)
      rest == RemoveAt(lp.st.queue, i)
  IN [lp EXCEPT !.st = st1,
                !.inserted = [h \in DOMAIN pool |->
                                @[h] + CountIn(st1.queue, h) - CountIn(rest, h)],
                !.steps = @ + 1,
                !.last = [hash |-> lp.st.queue[i], st |-> lp.st]]

\* Lines 346-355: the canonical sort when active, refresh(), and the
\* assertion on the size of the block.
EndLoop(att, st, mag) ==
  SortAndRefresh([att EXCEPT !.size = st.size, !.sigops = st.sigops,
                             !.fees = st.fees, !.items = st.items], mag)

\* The options of the miner whose loop is followed: no priority phase, or
\* one of two units of size, the reserved size included.
LoopOptionSets ==
  [maxSize : {4}, maxSigops : {3}, minSize : {3}, prioritySize : {0, 2},
   priorityThreshold : {1}, reservedSize : {1}, reservedSigops : {1},
   preverify : {FALSE}]

InitLoop ==
  /\ mempool = << >>
  /\ hasMempool = TRUE
  /\ options \in LoopOptionSets
  /\ magnetic = FALSE
  /\ chainTip = GenesisTip
  /\ mempoolTip = GenesisTip.hash
  /\ attempt = NewTemplate(options, chainTip.height + 1, NowTime)
  /\ commitLog = << >>
  /\ outcome = "none"
  /\ InitNoCalls
  /\ InitNoChain

\* The mempool fills before assemble is called; the call is synchronous, so
\* nothing is added while it runs.
LoopMempoolAdd ==
  /\ loop = NoLoop
  /\ Cardinality(DOMAIN mempool) < MaxPool
  /\ MempoolAdd

LoopStart ==
  /\ loop = NoLoop
  /\ outcome = "none"
  /\ hasMempool
  /\ TipsAgree(mempoolTip, chainTip)
  /\ loop' = StartLoop(mempool, options, attempt)
  /\ UNCHANGED <<minerVars, tipVars, lockVars, chainVars, pushed, thisAddr, unitVars>>

LoopStep ==
  /\ loop # NoLoop
  /\ loop.pc = "loop"
  /\ Len(loop.st.queue) > 0
  /\ \E i \in ShiftChoices(mempool, loop.st) :
       loop' = StepLoop(mempool, options, attempt, loop, i)
  /\ UNCHANGED <<minerVars, tipVars, lockVars, chainVars, pushed, thisAddr, unitVars>>

\* The deployment state is read only here, after the loop.
LoopEnd ==
  /\ loop # NoLoop
  /\ loop.pc = "loop"
  /\ Len(loop.st.queue) = 0
  /\ \E mag \in BOOLEAN :
       /\ magnetic' = mag
       /\ attempt' = EndLoop(attempt, loop.st, mag)
  /\ commitLog' = loop.st.log
  /\ outcome' = IF attempt'.size <= MAX_FORK_BLOCK_SIZE THEN "ok" ELSE "assert"
  /\ loop' = [loop EXCEPT !.pc = "done"]
  /\ UNCHANGED <<mempool, hasMempool, options, tipVars, lockVars, chainVars,
                 pushed, thisAddr, unitVars>>

NextLoop == LoopMempoolAdd \/ LoopStart \/ LoopStep \/ LoopEnd

SpecLoop == InitLoop /\ [][NextLoop]_vars

\* The call runs to completion: the loop's body and the code after it are
\* synchronous, nothing can keep them from running.
FairLoop == SpecLoop /\ WF_vars(LoopStep) /\ WF_vars(LoopEnd)

\* An iteration has run; e is the entry it shifted, b the state it found.
Stepped == loop # NoLoop /\ loop.last # NoPop

\* The entry the last iteration shifted, the state the iteration found, and
\* the running size and sigops with the entry added (lines 300-313).
Popped == mempool[loop.last.hash]
Found == loop.last.st
SizeWith == Found.size + Popped.size
SigopsWith == Found.sigops + Popped.sigops

\* The entry passed the three tests the two phases share.
Eligible ==
  /\ isFinal(Popped, attempt.height, attempt.locktime)
  /\ SizeWith <= options.maxSize
  /\ SigopsWith <= options.maxSigops

\* Lines 330-333 ran for the entry.
Committed ==
  /\ loop.st.items = Append(Found.items, Popped.hash)
  /\ loop.st.size = SizeWith
  /\ loop.st.sigops = SigopsWith
  /\ loop.st.fees = Found.fees + Popped.fee

\* The template was left as the iteration found it.
Untouched ==
  /\ loop.st.items = Found.items
  /\ loop.st.size = Found.size
  /\ loop.st.sigops = Found.sigops
  /\ loop.st.fees = Found.fees

\* (C24 as stated) in the fee-rate phase every shifted entry that is final
\* and keeps the size and the sigops within their budgets is committed.
C24_AsStated ==
  (Stepped /\ ~Found.priority /\ Eligible) => Committed

\* if (item.free && size >= this.options.minSize) continue;
FreeSkipped == Popped.free /\ SizeWith >= options.minSize

(***************************************************************************)
(* C24: in the fee-rate phase every shifted entry that is final at         *)
(* (height, locktime), keeps the running size <= maxSize and the running   *)
(* sigops <= maxSigops, and is not a free entry that takes the size to     *)
(* minSize or more, is committed: its size, sigops and fee are added and   *)
(* it is appended to the items.  A free entry at or past minSize is        *)
(* skipped and leaves the template as it was.                              *)
(***************************************************************************)
C24_FeeRateCommit ==
  (Stepped /\ ~Found.priority /\ Eligible) =>
    IF FreeSkipped THEN Untouched ELSE Committed

\* A second entry was committed in the fee-rate phase, its sigops taking the
\* template exactly to maxSigops.
C24_Witness ==
  /\ Stepped /\ ~Found.priority /\ Eligible /\ ~FreeSkipped
  /\ Committed
  /\ Len(loop.st.items) = 2
  /\ SigopsWith = options.maxSigops

\* The iteration found the loop in the priority phase and left it in the
\* fee-rate phase: lines 319-323 ran, the entry went back into the heap and
\* the template was left as it was.
LeftPriority == Found.priority /\ ~loop.st.priority

BelowThreshold == Popped.priority < options.priorityThreshold

(***************************************************************************)
(* C25: with prioritySize > 0 the loop leaves the priority phase exactly   *)
(* at the entry (final and within maxSize and maxSigops) that takes the    *)
(* cumulative size to prioritySize or more, or whose priority is below     *)
(* priorityThreshold; the entry is then put back into the heap, which is   *)
(* ordered by fee rate from there on.                                      *)
(***************************************************************************)
C25_PhaseSwitch ==
  (Stepped /\ Found.priority /\ Eligible) =>
    /\ LeftPriority <=> (SizeWith >= options.prioritySize \/ BelowThreshold)
    /\ LeftPriority =>
         (Untouched /\ CountIn(loop.st.queue, Popped.hash) = 1)

\* What the loop does: the phase is left when the size is strictly above
\* prioritySize, by an entry that passed the three tests before; no other
\* iteration leaves it.
C25_StrictlyAbove ==
  (Stepped /\ Found.priority) =>
    /\ LeftPriority <=>
         (Eligible /\ (SizeWith > options.prioritySize \/ BelowThreshold))
    /\ LeftPriority =>
         (Untouched /\ CountIn(loop.st.queue, Popped.hash) = 1)

\* Once in the fee-rate phase, the loop stays there.
C25_NoReturn ==
  [][(loop # NoLoop /\ loop' # NoLoop /\ ~loop.st.priority) => ~loop'.st.priority]_vars

\* An entry of sufficient priority takes the size exactly to prioritySize:
\* it is committed and the loop stays in the priority phase.
C25_Witness ==
  /\ Stepped /\ Found.priority /\ Eligible
  /\ SizeWith = options.prioritySize
  /\ ~BelowThreshold
  /\ loop.st.priority
  /\ Committed

\* The sum of field f of the pool entries listed in items.
RECURSIVE Total(_, _)
Total(items, f) ==
  IF Len(items) = 0 THEN 0
  ELSE mempool[Head(items)][f] + Total(Tail(items), f)

\* The totals of a template (running or finished) are its starting values
\* plus the sums over its items.
TotalsOf(t) ==
  /\ t.fees = Total(t.items, "fee")
  /\ t.size = options.reservedSize + Total(t.items, "size")
  /\ t.sigops = options.reservedSigops + Total(t.items, "sigops")

(***************************************************************************)
(* C26: after assemble, attempt.fees is its value before the call (0 for   *)
(* the new template) plus the sum of item.fee over exactly the entries     *)
(* appended to attempt.items, and attempt.size and attempt.sigops are the  *)
(* reserved starting values plus the sums of the entries' sizes and sigops *)
(* over the same entries; the same holds after every iteration, and an     *)
(* iteration that skips or re-queues its entry changes none of the three.  *)
(***************************************************************************)
C26_Totals ==
  /\ loop # NoLoop => TotalsOf(loop.st)
  /\ Stepped => (Committed \/ Untouched)
  /\ (loop # NoLoop /\ outcome # "none") =>
       /\ TotalsOf(attempt)
       /\ \A h \in DOMAIN mempool : CountIn(attempt.items, h) = CountIn(commitLog, h)

\* assemble has returned a template with an entry that pays a fee, after it
\* re-queued an entry at the end of the priority phase and skipped an entry
\* that pays a fee as well.
C26_Witness ==
  /\ loop # NoLoop /\ outcome = "ok"
  /\ attempt.fees > 0
  /\ Len(attempt.items) = 1
  /\ loop.steps = 3
  /\ \E h \in DOMAIN mempool :
       CountIn(attempt.items, h) = 0 /\ mempool[h].fee > 0

\* A pool entry is registered under a parent once per input that spends an
\* output of the parent: it spends several outputs of the same entry.
SpendsTwice(h) ==
  \E k1, k2 \in PoolInputs(mempool, mempool[h]) :
    k1 # k2 /\ mempool[h].inputs[k1].prevout = mempool[h].inputs[k2].prevout

\* The entry put back into the heap when the priority phase ended.
Requeued(h) ==
  /\ loop.inserted[h] = 2
  /\ ~loop.st.priority
  /\ options.prioritySize > 0

(***************************************************************************)
(* C29: assemble commits each mempool entry at most once.  No transaction  *)
(* occurs twice in the items, during the loop or in the template assemble  *)
(* returns, also when it spends several outputs of one pool entry and also *)
(* when it was put back into the heap at the end of the priority phase; an *)
(* entry that is in the items is not in the heap any more.                 *)
(***************************************************************************)
C29_CommitOnce ==
  /\ loop # NoLoop =>
       \A h \in DOMAIN mempool :
         /\ CountIn(loop.st.items, h) <= 1
         /\ CountIn(loop.st.items, h) + CountIn(loop.st.queue, h) <= 1
  /\ (loop # NoLoop /\ outcome # "none") =>
       \A h \in DOMAIN mempool : CountIn(attempt.items, h) <= 1

\* assemble returned a template of two entries: one was put back into the
\* heap at the end of the priority phase and committed afterwards, the other
\* spends two outputs of it.
C29_Witness ==
  /\ loop # NoLoop /\ outcome = "ok"
  /\ Len(attempt.items) = 2
  /\ \E p, h \in DOMAIN mempool :
       /\ Requeued(p) /\ CountIn(attempt.items, p) = 1
       /\ SpendsTwice(h) /\ mempool[h].inputs[1].prevout = p
       /\ CountIn(attempt.items, h) = 1

\* The calls of queue.insert so far, over the entries in S.
RECURSIVE Inserts(_)
Inserts(S) ==
  IF S = {} THEN 0
  ELSE LET h == CHOOSE x \in S : TRUE
       IN loop.inserted[h] + Inserts(S \ {h})

\* What the loop keeps true: an entry enters the heap at most twice, and
\* twice only if it is the one put back at the phase switch; every
\* iteration took one element out of the heap; and an entry with a parent
\* that was not committed has not entered the heap.
LoopBounded ==
  loop # NoLoop =>
    /\ \A h \in DOMAIN mempool :
         /\ loop.inserted[h] <= 2
         /\ loop.inserted[h] = 2 => Requeued(h)
         /\ loop.st.depCount[h] > 0 =>
              (loop.inserted[h] = 0 /\ CountIn(loop.st.items, h) = 0)
    /\ Cardinality({h \in DOMAIN mempool : loop.inserted[h] = 2}) <= 1
    /\ loop.steps + Len(loop.st.queue) = Inserts(DOMAIN mempool)

(***************************************************************************)
(* C30: assemble terminates for every finite mempool.  Each entry is       *)
(* inserted into the heap at most twice (once when it becomes free and at  *)
(* most once more at the switch from priority to rate), every iteration    *)
(* removes one heap element, and an entry whose pool parents are never     *)
(* committed is left out: the call ends all the same.                      *)
(***************************************************************************)
C30_Terminates ==
  /\ []LoopBounded
  /\ (loop # NoLoop) ~> (outcome # "none")

\* assemble has returned, two iterations after it started with two entries:
\* the parent was shifted and skipped, and its child, final and within the
\* budgets, never entered the heap and was left out.
C30_Witness ==
  /\ loop # NoLoop /\ outcome = "ok"
  /\ \E p, h \in DOMAIN mempool :
       /\ loop.inserted[p] = 1
       /\ CountIn(attempt.items, p) = 0
       /\ loop.inserted[h] = 0
       /\ loop.st.depCount[h] = 2
       /\ mempool[h].inputs[1].prevout = p
       /\ isFinal(mempool[h], attempt.height, attempt.locktime)
       /\ attempt.size + mempool[h].size <= options.maxSize
       /\ attempt.sigops + mempool[h].sigops <= options.maxSigops

(***************************************************************************)
(* TX.signatureHash: the choice between the legacy algorithm (v0) and the  *)
(* FORKID algorithm (v1).  A hashtype is the four bytes writeU32 writes,   *)
(* lowest first: the base type, then the 24 bits of the fork value.  Flags *)
(* are sets of flag names.                                                 *)
(***************************************************************************)
SIGHASH_FORKID == 64
SIGHASH_SINGLE == 3

\* a ^ b and a | b on n bits.
RECURSIVE XorBits(_, _, _)
XorBits(a, b, n) ==
  IF n = 0 THEN 0
  ELSE ((a + b) % 2) + 2 * XorBits(a \div 2, b \div 2, n - 1)

RECURSIVE OrBits(_, _, _)
OrBits(a, b, n) ==
  IF n = 0 THEN 0
  ELSE (IF a % 2 = 1 \/ b % 2 = 1 THEN 1 ELSE 0)
       + 2 * OrBits(a \div 2, b \div 2, n - 1)

\* type & bit, for a bit of the lowest byte.
HasBit(type, bit) == (type[1] \div bit) % 2 = 1

\* common.getHashTypeForkValue(type): the bits above the lowest byte.
getHashTypeForkValue(type) == type[2] + 256 * type[3] + 65536 * type[4]

\* common.hashTypeWithForkValue(type, forkValue): the lowest byte of type
\* under the 24 bits of forkValue.
hashTypeWithForkValue(type, forkValue) ==
  <<type[1], forkValue % 256, (forkValue \div 256) % 256,
    (forkValue \div 65536) % 256>>

\* Script.flags.STANDARD_VERIFY_FLAGS, as far as signatureHash reads it.
STANDARD_VERIFY_FLAGS ==
  {"VERIFY_P2SH", "VERIFY_STRICTENC", "VERIFY_DERSIG", "VERIFY_LOW_S",
   "VERIFY_NULLFAIL", "VERIFY_SIGHASH_FORKID"}

\* if (flags == null) flags = Script.flags.STANDARD_VERIFY_FLAGS;
FlagsOrDefault(flags) == IF flags.null THEN STANDARD_VERIFY_FLAGS ELSE flags.bits

\* Lines 274-277: the hashtype under replay protection.
Protected(type, flags) ==
  IF "VERIFY_REPLAY_PROTECTION" \in flags
    THEN LET newForkValue == XorBits(getHashTypeForkValue(type), 57005, 24)
         IN hashTypeWithForkValue(type, OrBits(newForkValue, 16711680, 24))
    ELSE type

\* (mutant) the flag alone selects the FORKID algorithm.
SelectsV1ByFlag(type, flags) == "VERIFY_SIGHASH_FORKID" \in flags

\* (type & SIGHASH_FORKID) && (flags & VERIFY_SIGHASH_FORKID)
SelectsV1(type, flags) ==
  HasBit(type, SIGHASH_FORKID) /\ "VERIFY_SIGHASH_FORKID" \in flags

\* What the hash is taken of.  The legacy algorithm returns the constant
\* 01 00..00 for SINGLE without a matching output and hashes no value; the
\* FORKID algorithm hashes the value of the output spent.
signatureHashV0(t, index, type) ==
  IF type[1] % 32 = SIGHASH_SINGLE /\ index >= t.outputs
    THEN [algo |-> "v0", one |-> TRUE, index |-> 0, value |-> 0, type |-> <<0, 0, 0, 0>>]
    ELSE [algo |-> "v0", one |-> FALSE, index |-> index, value |-> 0, type |-> type]

signatureHashV1(t, index, value, type) ==
  [algo |-> "v1", one |-> FALSE, index |-> index, value |-> value, type |-> type]

signatureHash(t, index, value, type, flags) ==
  LET f == FlagsOrDefault(flags)
      ty == Protected(type, f)
  IN IF SelectsV1(ty, f)
       THEN signatureHashV1(t, index, value, ty)
       ELSE signatureHashV0(t, index, ty)

\* The hashtypes, flags and transactions drawn.
BaseTypes == {1, 2, 3, 65, 66, 67, 129, 193}
ForkBytes == {<<0, 0, 0>>, <<1, 0, 0>>, <<173, 222, 0>>, <<173, 222, 255>>,
              <<255, 255, 255>>}
HashTypes == {<<b>> \o f : b \in BaseTypes, f \in ForkBytes}
FlagSets ==
  {[null |-> TRUE, bits |-> {}]}
  \cup {[null |-> FALSE, bits |-> s] :
          s \in SUBSET {"VERIFY_P2SH", "VERIFY_SIGHASH_FORKID",
                        "VERIFY_REPLAY_PROTECTION"}}

InitSighash ==
  /\ InitRest
  /\ thisTx \in [inputs : {1, 2}, outputs : {0, 1, 2}]
  /\ thisBlock = << >>
  /\ args = << >>
  /\ ret = << >>

\* tx.signatureHash(index, prev, value, type, flags)
SignatureHash ==
  /\ ret = << >>
  /\ \E index \in 0..(thisTx.inputs - 1), value \in {0, 5},
        type \in HashTypes, flags \in FlagSets :
       /\ args' = [call |-> "signatureHash", index |-> index, value |-> value,
                   type |-> type, flags |-> flags]
       /\ ret' = signatureHash(thisTx, index, value, type, flags)
  /\ UNCHANGED <<restVars, thisTx, thisBlock>>

NextSighash == SignatureHash

SpecSighash == InitSighash /\ [][NextSighash]_vars

\* signatureHash was called; f are the flags in force.
Hashed == args # << >> /\ args.call = "signatureHash"
InForce == FlagsOrDefault(args.flags)

\* The same call without replay protection.
Unprotected ==
  signatureHash(thisTx, args.index, args.value, args.type,
                [null |-> FALSE, bits |-> InForce \ {"VERIFY_REPLAY_PROTECTION"}])

(***************************************************************************)
(* C21: signatureHash computes the v1 (FORKID) hash exactly when the       *)
(* hashtype has the SIGHASH_FORKID bit set and the flags include           *)
(* VERIFY_SIGHASH_FORKID, and the v0 (legacy) hash in every other case;    *)
(* VERIFY_REPLAY_PROTECTION changes the hashtype that is hashed (the fork  *)
(* value XOR 0xDEAD, OR 0xFF0000, the lowest byte kept) and never which of *)
(* the two algorithms is selected.                                         *)
(***************************************************************************)
C21_SighashSelection ==
  Hashed =>
    /\ ret.algo = (IF HasBit(args.type, SIGHASH_FORKID)
                      /\ "VERIFY_SIGHASH_FORKID" \in InForce
                     THEN "v1" ELSE "v0")
    /\ ret.algo = Unprotected.algo
    /\ ret.one = Unprotected.one
    /\ ("VERIFY_REPLAY_PROTECTION" \notin InForce) => ret = Unprotected
    /\ ("VERIFY_REPLAY_PROTECTION" \in InForce /\ ~ret.one) =>
         /\ ret.type # args.type
         /\ ret.type[1] = args.type[1]
         /\ ret.type[4] = 255
         /\ Unprotected.type = args.type
         /\ [ret EXCEPT !.type = args.type] = Unprotected

\* Under replay protection a hashtype with the FORKID bit and the fork value
\* 0xFFDEAD was hashed by v1 with the fork value 0xFF0000.
C21_Witness ==
  /\ Hashed
  /\ "VERIFY_REPLAY_PROTECTION" \in InForce
  /\ args.type = <<65, 173, 222, 255>>
  /\ ret.algo = "v1"
  /\ ret.type = <<65, 0, 0, 255>>

(***************************************************************************)
(* Address (lib/primitives/address.js): a type and a 20-byte hash, and the *)
(* ways an Address object is filled.  A call that throws leaves the error  *)
(* in its result; the object is the one the call was made on.              *)
(***************************************************************************)
PUBKEYHASH == 0
SCRIPTHASH == 1

\* The longest string of characters drawn for an address.
MaxStr == 3

\* A buffer of n bytes b.
Bytes(n, b) == [k \in 1..n |-> b]

ZERO_HASH160 == Bytes(20, 0)

\* new Address()
NewAddress == [type |-> PUBKEYHASH, hash |-> ZERO_HASH160]

\* What a call leaves: the object, whether it returned, the error thrown,
\* and the parsers fromString went through (history).
Threw(a, e) == [addr |-> a, ok |-> FALSE, error |-> e, tried |-> << >>]
Returned(a) == [addr |-> a, ok |-> TRUE, error |-> "none", tried |-> << >>]

\* A type argument: a number, a name, or none.
TypeNumber(n) == [kind |-> "number", num |-> n, str |-> ""]
TypeName(s) == [kind |-> "string", num |-> 0, str |-> s]
TypeNull == [kind |-> "null", num |-> 0, str |-> ""]

\* String.prototype.toUpperCase on the names drawn.
toUpperCase(s) ==
  CASE s = "pubkeyhash" -> "PUBKEYHASH"
    [] s = "ScriptHash" -> "SCRIPTHASH"
    [] OTHER -> s

\* Address.types[name]
TypesByName(name) ==
  CASE name = "PUBKEYHASH" -> TypeNumber(PUBKEYHASH)
    [] name = "SCRIPTHASH" -> TypeNumber(SCRIPTHASH)
    [] OTHER -> TypeNull

\* (mutant) a hash of any length is taken.
HashSizeAny(buf) == TRUE

\* assert(hash.length === 20, 'Hash is the wrong size.');
HashSizeOk(buf) == Len(buf) = 20

\* Address.fromHash(hash, type), the hash being a buffer.
fromHash(a, buf, type) ==
  LET named == IF type.kind = "string" THEN TypesByName(toUpperCase(type.str))
               ELSE type
      t == IF named.kind = "null" THEN PUBKEYHASH ELSE named.num
  IN IF type.kind = "string" /\ named.kind = "null"
       THEN Threw(a, "Not a valid address type.")
     ELSE IF t < 0
       THEN Threw(a, "AssertionError")
     ELSE IF ~(t >= PUBKEYHASH /\ t <= SCRIPTHASH)
       THEN Threw(a, "Not a valid address type.")
     ELSE IF ~HashSizeOk(buf)
       THEN Threw(a, "Hash is the wrong size.")
     ELSE Returned([type |-> t, hash |-> buf])

fromPubkeyhash(a, buf) ==
  IF Len(buf) # 20 THEN Threw(a, "P2PKH must be 20 bytes.")
  ELSE fromHash(a, buf, TypeNumber(PUBKEYHASH))

fromScripthash(a, buf) ==
  IF Len(buf) # 20 THEN Threw(a, "P2SH must be 20 bytes.")
  ELSE fromHash(a, buf, TypeNumber(SCRIPTHASH))

\* network.addressPrefix of the main network.
PrefixPubkeyhash == 0
PrefixScripthash == 5

\* Network.fromAddress(prefix, network): the network that uses the prefix.
KnownPrefix(prefix) == prefix \in {PrefixPubkeyhash, PrefixScripthash}

\* Address.getType(prefix, network); -1 stands for the error thrown.
getType(prefix) ==
  IF prefix = PrefixPubkeyhash THEN PUBKEYHASH
  ELSE IF prefix = PrefixScripthash THEN SCRIPTHASH
  ELSE -1

\* Serialized data: the prefix byte, the hash, and a 4-byte checksum that
\* is right or wrong.
RawData(prefix, buf, sumOk) == [prefix |-> prefix, hash |-> buf, sumOk |-> sumOk]
RawLength(data) == 1 + Len(data.hash) + 4

fromRaw(a, data) ==
  IF ~KnownPrefix(data.prefix) THEN Threw(a, "Network not found.")
  ELSE IF getType(data.prefix) = -1 THEN Threw(a, "Unknown address prefix.")
  ELSE IF RawLength(data) # 25 THEN Threw(a, "Address is too long.")
  ELSE IF ~data.sumOk THEN Threw(a, "Invalid checksum.")
  ELSE fromHash(a, data.hash, TypeNumber(getType(data.prefix)))

\* What cashaddr.decode and base58.decode make of a string: nothing (they
\* throw), or the decoded address and the decoded bytes.
NotDecoded == [ok |-> FALSE, knownPrefix |-> FALSE, type |-> 0, hash |-> << >>]
CashDecoded(known, type, buf) ==
  [ok |-> TRUE, knownPrefix |-> known, type |-> type, hash |-> buf]
NoRaw == [ok |-> FALSE, data |-> RawData(0, << >>, FALSE)]
RawDecoded(data) == [ok |-> TRUE, data |-> data]

\* An address string: its first characters (char codes), the number of
\* digits '1' that follow them, what cashaddr.decode makes of it with the
\* case of its letters folded, and what base58.decode makes of it.
AddrString(chars, pad, cash, b58) ==
  [chars |-> chars, pad |-> pad, cash |-> cash, b58 |-> b58]
StrLength(str) == Len(str.chars) + str.pad

fromBase58(a, str) ==
  IF StrLength(str) > 55 THEN Threw(a, "Address is too long.")
  ELSE IF ~str.b58.ok THEN Threw(a, "Non-base58 character.")
  ELSE fromRaw(a, str.b58.data)

\* The string has a lower-case and an upper-case letter: cashaddr.decode
\* rejects it for its casing.
BothCases(chars) ==
  /\ \E k \in 1..Len(chars) : chars[k] >= 97 /\ chars[k] <= 122
  /\ \E k \in 1..Len(chars) : chars[k] >= 65 /\ chars[k] <= 90

fromCashAddr(a, str) ==
  IF BothCases(str.chars) THEN Threw(a, "Invalid cashaddr casing.")
  ELSE IF ~str.cash.ok THEN Threw(a, "Invalid cashaddr.")
  ELSE IF ~str.cash.knownPrefix THEN Threw(a, "Network not found.")
  ELSE fromHash(a, str.cash.hash, TypeNumber(str.cash.type))

\* isMixedCase(str) from character i on: "true", "false", or "assert" when
\* an assertion on a character fails.
RECURSIVE MixedFrom(_, _, _, _)
MixedFrom(chars, i, lower, upper) ==
  IF i > Len(chars) THEN "false"
  ELSE LET ch == chars[i]
       IN IF (ch >= 48 /\ ch <= 57) \/ ch = 58
            THEN MixedFrom(chars, i + 1, lower, upper)
          ELSE IF (ch \div 32) % 2 = 1
            THEN IF ~(ch >= 97 /\ ch <= 122) THEN "assert"
                 ELSE IF upper THEN "true"
                 ELSE MixedFrom(chars, i + 1, TRUE, upper)
          ELSE IF ~(ch >= 65 /\ ch <= 90) THEN "assert"
               ELSE IF lower THEN "true"
               ELSE MixedFrom(chars, i + 1, lower, TRUE)

\* The digits that pad a string are skipped by the loop.
isMixedCase(str) == MixedFrom(str.chars, 1, FALSE, FALSE)

Tried(r, parsers) == [r EXCEPT !.tried = parsers]

\* (mutant) cashaddr is tried first whatever the case of the letters.
TakenAsBase58Never(mixed) == FALSE

\* if (isMixedCase(addr)) return this.fromBase58(addr, network);
TakenAsBase58(mixed) == mixed = "true"

\* Address.fromString(addr, network)
fromString(a, str) ==
  IF StrLength(str) = 0 \/ StrLength(str) > 100 THEN Threw(a, "AssertionError")
  ELSE IF isMixedCase(str) = "assert" THEN Threw(a, "AssertionError")
  ELSE IF TakenAsBase58(isMixedCase(str))
    THEN Tried(fromBase58(a, str), <<"base58">>)
  ELSE IF fromCashAddr(a, str).ok
    THEN Tried(fromCashAddr(a, str), <<"cashaddr">>)
  ELSE Tried(fromBase58(a, str), <<"cashaddr", "base58">>)

\* The inputs drawn: objects, buffers, type arguments, serialized data and
\* strings.  The characters are '1', ':', 'a', 'A', '-' and '@'.
Addresses == {NewAddress, [type |-> SCRIPTHASH, hash |-> Bytes(20, 7)]}
Buffers == {Bytes(n, 9) : n \in {0, 19, 20, 21}}
TypeArgs ==
  {TypeNull, TypeName("pubkeyhash"), TypeName("ScriptHash"), TypeName("witness")}
  \cup {TypeNumber(n) : n \in {-1, 0, 1, 2}}
RawDatas == {RawData(p, h, c) : p \in {0, 5, 111}, h \in Buffers, c \in BOOLEAN}
Chars == {49, 58, 97, 65, 45, 64}
CharSeqs == UNION {[1..n -> Chars] : n \in 0..MaxStr}
Pads == {0, 60, 100}

\* Only a string of letters and digits, with a colon for cashaddr, decodes.
Alnum(chars) ==
  \A k \in 1..Len(chars) : chars[k] \in {49, 97, 65}
CashResults(chars) ==
  {NotDecoded}
  \cup (IF \A k \in 1..Len(chars) : chars[k] \in {49, 58, 97, 65}
          THEN {CashDecoded(TRUE, SCRIPTHASH, Bytes(20, 9)),
                CashDecoded(TRUE, 2, Bytes(20, 9)),
                CashDecoded(TRUE, PUBKEYHASH, Bytes(21, 9)),
                CashDecoded(FALSE, PUBKEYHASH, Bytes(20, 9))}
          ELSE {})

\* A string that is a cashaddr address (whatever the case of its letters)
\* is longer than the Base58 form of 25 bytes: base58.decode does not make
\* a well-formed 25 bytes of it.
Base58Results(chars, cash) ==
  {NoRaw}
  \cup (IF Alnum(chars)
          THEN {RawDecoded(RawData(0, Bytes(21, 9), TRUE)),
                RawDecoded(RawData(5, Bytes(20, 9), FALSE))}
               \cup (IF cash.ok THEN {}
                     ELSE {RawDecoded(RawData(5, Bytes(20, 9), TRUE))})
          ELSE {})

InitAddress ==
  /\ mempool = << >>
  /\ hasMempool = FALSE
  /\ options = CHOOSE o \in CreateOptionSets : ~o.preverify
  /\ magnetic = FALSE
  /\ chainTip = GenesisTip
  /\ mempoolTip = GenesisTip.hash
  /\ attempt = NewTemplate(options, chainTip.height + 1, NowTime)
  /\ commitLog = << >>
  /\ outcome = "none"
  /\ InitNoCalls
  /\ pushed = << >>
  /\ loop = NoLoop
  /\ chain = << >>
  /\ received = 0
  /\ emitted = << >>
  /\ listener = << >>
  /\ lastOp = << >>
  /\ InitNoUnit
  /\ thisAddr \in Addresses

addrRest == <<minerVars, tipVars, lockVars, chainVars, pushed, loop, thisTx, thisBlock>>

\* A call on the object: what it was given (the hash and the type it is to
\* take, when the call gets that far), the object before, and the result.
AddrCall(call, given, str, r) ==
  /\ ret = << >>
  /\ args' = [call |-> call, before |-> thisAddr, given |-> given, str |-> str]
  /\ ret' = [ok |-> r.ok, error |-> r.error, tried |-> r.tried]
  /\ thisAddr' = r.addr
  /\ UNCHANGED addrRest

Given(buf, type) == [buf |-> buf, type |-> type]
NoString == AddrString(<< >>, 0, NotDecoded, NoRaw)

FromHash ==
  \E buf \in Buffers, type \in TypeArgs :
    AddrCall("fromHash", Given(buf, type), NoString, fromHash(thisAddr, buf, type))

FromPubkeyhash ==
  \E buf \in Buffers :
    AddrCall("fromPubkeyhash", Given(buf, TypeNumber(PUBKEYHASH)), NoString,
             fromPubkeyhash(thisAddr, buf))

FromScripthash ==
  \E buf \in Buffers :
    AddrCall("fromScripthash", Given(buf, TypeNumber(SCRIPTHASH)), NoString,
             fromScripthash(thisAddr, buf))

AddressFromRaw ==
  \E data \in RawDatas :
    AddrCall("fromRaw", Given(data.hash, TypeNumber(getType(data.prefix))),
             NoString, fromRaw(thisAddr, data))

FromCashAddr ==
  \E chars \in CharSeqs :
    \E cash \in CashResults(chars) :
      AddrCall("fromCashAddr", Given(cash.hash, TypeNumber(cash.type)),
               AddrString(chars, 0, cash, NoRaw),
               fromCashAddr(thisAddr, AddrString(chars, 0, cash, NoRaw)))

FromString ==
  \E chars \in CharSeqs, pad \in Pads :
    \E cash \in CashResults(chars) :
      \E b58 \in Base58Results(chars, cash) :
        AddrCall("fromString", Given(<< >>, TypeNull),
                 AddrString(chars, pad, cash, b58),
                 fromString(thisAddr, AddrString(chars, pad, cash, b58)))

NextAddress ==
  FromHash \/ FromPubkeyhash \/ FromScripthash \/ AddressFromRaw \/ FromCashAddr
  \/ FromString

SpecAddress == InitAddress /\ [][NextAddress]_vars

\* fromString was called on the string args.str.
Parsed == args # << >> /\ args.call = "fromString"

\* What the claim says of a call of fromString: Base58 alone exactly for a
\* string of both cases, else cashaddr first and Base58 after it failed; a
\* cashaddr address of both cases is rejected; and when both parsers fail
\* the error is the one of Base58.
AsClaimed ==
  /\ (ret.tried = <<"base58">>) <=> BothCases(args.str.chars)
  /\ ~BothCases(args.str.chars) =>
       IF fromCashAddr(args.before, args.str).ok
         THEN ret.tried = <<"cashaddr">> /\ ret.ok
         ELSE ret.tried = <<"cashaddr", "base58">>
  /\ (BothCases(args.str.chars) /\ args.str.cash.ok) => ~ret.ok
  /\ (~fromCashAddr(args.before, args.str).ok
      /\ ~fromBase58(args.before, args.str).ok) =>
       (~ret.ok /\ ret.error = fromBase58(args.before, args.str).error)

\* (C22 as stated) of every string.
C22_AsStated == Parsed => AsClaimed

\* The assertions of fromString and isMixedCase hold of the string: it has
\* 1 to 100 characters, and isMixedCase meets digits, ':' and ASCII letters
\* only before it returns.
WellFormed(str) ==
  /\ StrLength(str) >= 1
  /\ StrLength(str) <= 100
  /\ isMixedCase(str) # "assert"

(***************************************************************************)
(* C22: of an address string of 1 to 100 characters in which isMixedCase   *)
(* meets only digits, ':' and ASCII letters, fromString takes the Base58   *)
(* parser alone if and only if the string has both an upper-case and a     *)
(* lower-case letter; otherwise it tries cashaddr first and Base58 after   *)
(* any cashaddr failure; a cashaddr address of mixed case is rejected, and *)
(* when both parsers fail the error is the Base58 one.  Of any other       *)
(* string an assertion fails before either parser is tried.                *)
(***************************************************************************)
C22_FromString ==
  Parsed =>
    IF WellFormed(args.str) THEN AsClaimed
    ELSE /\ ~ret.ok
         /\ ret.error = "AssertionError"
         /\ ret.tried = << >>
         /\ thisAddr = args.before

\* A cashaddr address written in both cases went to the Base58 parser alone
\* and was rejected with its error.
C22_Witness ==
  /\ Parsed
  /\ WellFormed(args.str)
  /\ BothCases(args.str.chars)
  /\ args.str.cash.ok /\ args.str.cash.knownPrefix
  /\ args.str.cash.type = SCRIPTHASH
  /\ ret.tried = <<"base58">>
  /\ ~ret.ok
  /\ ret.error = "Non-base58 character."

\* A call was made on the Address object.
AddrCalled == args # << >> /\ "before" \in DOMAIN args

\* A type and a 20-byte hash.
ValidAddress(a) ==
  /\ a.type \in {PUBKEYHASH, SCRIPTHASH}
  /\ Len(a.hash) = 20

\* The call got as far as a hash and a type: fromHash, fromPubkeyhash and
\* fromScripthash are given them, fromRaw and fromCashAddr decode them.
HasGiven ==
  \/ args.call \in {"fromHash", "fromPubkeyhash", "fromScripthash", "fromRaw"}
  \/ args.call = "fromCashAddr" /\ args.str.cash.ok /\ ~BothCases(args.str.chars)

\* The type given is a number outside {0, 1} (an unknown prefix decodes to
\* none) or a name that is not a type's.
TypeOutside(type) ==
  \/ type.kind = "number" /\ type.num \notin {PUBKEYHASH, SCRIPTHASH}
  \/ type.kind = "string" /\ TypesByName(toUpperCase(type.str)).kind = "null"

(***************************************************************************)
(* C23: every Address produced by fromHash, fromPubkeyhash, fromScripthash,*)
(* fromRaw, fromCashAddr or fromString has a type in {PUBKEYHASH,          *)
(* SCRIPTHASH} and a hash of exactly 20 bytes; a hash of any other length  *)
(* (the empty one too) or a type outside {0, 1} is rejected with an error, *)
(* and a call that ends in an error leaves the object's type and hash as   *)
(* they were.                                                              *)
(***************************************************************************)
C23_AddressShape ==
  /\ thisAddr # NoAddress => ValidAddress(thisAddr)
  /\ AddrCalled =>
       /\ ret.ok => ValidAddress(thisAddr)
       /\ ~ret.ok => (thisAddr = args.before /\ ret.error # "none")
       /\ (HasGiven /\ Len(args.given.buf) # 20) => ~ret.ok
       /\ (HasGiven /\ TypeOutside(args.given.type)) => ~ret.ok
       /\ (HasGiven /\ ret.ok) =>
            /\ thisAddr.hash = args.given.buf
            /\ thisAddr.type =
                 (IF args.given.type.kind = "number" THEN args.given.type.num
                  ELSE TypesByName(toUpperCase(
                         IF args.given.type.kind = "null" THEN "PUBKEYHASH"
                         ELSE args.given.type.str)).num)

\* fromHash was given a 19-byte hash and a valid type on an object that held
\* a script hash: it threw and the object is as it was.
C23_Witness ==
  /\ AddrCalled
  /\ args.call = "fromHash"
  /\ Len(args.given.buf) = 19
  /\ ~TypeOutside(args.given.type)
  /\ ~ret.ok
  /\ ret.error = "Hash is the wrong size."
  /\ thisAddr = args.before
  /\ thisAddr.type = SCRIPTHASH

(***************************************************************************)
(* TX.isRBF.  An input signals replaceability by a sequence number below   *)
(* 0xfffffffe (Input.isRBF); sequence numbers are narrowed to 16 bits as   *)
(* above.                                                                  *)
(***************************************************************************)
\* Input.isRBF()
inputIsRBF(input) == input.sequence < SEQUENCE_FINAL - 1

\* (mutant) the version is not looked at.
IsVersion2Never(t) == FALSE

\* if (this.version === 2) return false;
IsVersion2(t) == t.version = 2

\* for (const input of this.inputs) if (input.isRBF()) return true;
RECURSIVE AnyRBF(_, _)
AnyRBF(inputs, k) ==
  IF k > Len(inputs) THEN FALSE
  ELSE IF inputIsRBF(inputs[k]) THEN TRUE
  ELSE AnyRBF(inputs, k + 1)

isRBF(t) ==
  IF IsVersion2(t) THEN FALSE
  ELSE AnyRBF(t.inputs, 1)

\* The transactions drawn: versions 0 to 3, up to MaxIns inputs with a
\* sequence number that signals or one of the two that do not.
RBFInputs ==
  {[sequence |-> s] : s \in {0, SEQUENCE_FINAL - 2, SEQUENCE_FINAL - 1, SEQUENCE_FINAL}}

InitRBF ==
  /\ InitRest
  /\ thisTx \in [version : 0..3,
                 inputs : UNION {[1..n -> RBFInputs] : n \in 0..MaxIns}]
  /\ thisBlock = << >>
  /\ args = << >>
  /\ ret = << >>

\* tx.isRBF()
IsRBF ==
  /\ ret = << >>
  /\ args' = [call |-> "isRBF"]
  /\ ret' = [result |-> isRBF(thisTx)]
  /\ UNCHANGED <<restVars, thisTx, thisBlock>>

NextRBF == IsRBF

SpecRBF == InitRBF /\ [][NextRBF]_vars

RBFCalled == args # << >> /\ args.call = "isRBF"

(***************************************************************************)
(* C27: isRBF returns false for every transaction of version 2, whatever   *)
(* the sequence numbers of its inputs; for any other version it returns    *)
(* true exactly when at least one input signals replaceability.            *)
(***************************************************************************)
C27_IsRBF ==
  RBFCalled =>
    /\ thisTx.version = 2 => ret.result = FALSE
    /\ thisTx.version # 2 =>
         (ret.result <=>
            \E k \in 1..Len(thisTx.inputs) : inputIsRBF(thisTx.inputs[k]))

\* A transaction of version 2 whose second input signals replaceability:
\* isRBF returned false.
C27_Witness ==
  /\ RBFCalled
  /\ thisTx.version = 2
  /\ Len(thisTx.inputs) = 2
  /\ ~inputIsRBF(thisTx.inputs[1])
  /\ inputIsRBF(thisTx.inputs[2])
  /\ ret.result = FALSE

(***************************************************************************)
(* Verification of one input: checkInput, checkInputAsync, verifyInput and *)
(* verifyInputAsync.  What Script.verify makes of the input (it returns,   *)
(* or throws a ScriptError or another error) is given with the call, and   *)
(* so is whether the worker pool fails on its own account.                 *)
(***************************************************************************)
\* The end of a check: where the script was verified ("none" when the call
\* did not get there) and the error thrown ("none" when it returned).
Checked(where, error) == [where |-> where, error |-> error]

\* tx.checkInput(index, coin, flags)
checkInput(t, c) ==
  IF c.index >= t.inputs THEN Checked("none", "AssertionError")
  ELSE IF ~c.coin THEN Checked("none", "AssertionError")
  ELSE Checked("local", c.script)

\* pool.checkInput(tx, index, coin, flags): the same verification on a
\* worker, unless the worker fails.
poolCheckInput(t, c) ==
  Checked("pool", IF c.poolFails THEN "Error" ELSE c.script)

\* tx.checkInputAsync(index, coin, flags, pool)
checkInputAsync(t, c) ==
  IF c.index >= t.inputs THEN Checked("none", "AssertionError")
  ELSE IF ~c.coin THEN Checked("none", "AssertionError")
  ELSE IF ~c.pool THEN checkInput(t, c)
  ELSE poolCheckInput(t, c)

\* try { ... } catch (e) { if (e.type === 'ScriptError') return false; throw e; }
\* return true;
Verdict(r) ==
  [where |-> r.where,
   result |-> IF r.error = "none" THEN "true"
              ELSE IF r.error = "ScriptError" THEN "false"
              ELSE "throws",
   error |-> IF r.error = "ScriptError" THEN "none" ELSE r.error]

\* tx.verifyInput(index, coin, flags)
verifyInput(t, c) == Verdict(checkInput(t, c))

\* tx.verifyInputAsync(index, coin, flags, pool): the call inside the try
\* block is this.checkInput(index, coin, flags, pool).
verifyInputAsync(t, c) == Verdict(checkInput(t, c))

\* The calls drawn: an index (the last one past the inputs), a coin or
\* none, a pool or none, and the outcome of the script.
InputCalls ==
  [index : 0..MaxIns, coin : BOOLEAN, pool : BOOLEAN, poolFails : BOOLEAN,
   script : {"none", "ScriptError", "Error"}]

InitVerify ==
  /\ InitRest
  /\ thisTx \in [inputs : 1..MaxIns]
  /\ thisBlock = << >>
  /\ args = << >>
  /\ ret = << >>

InputCall(call, c, r) ==
  /\ ret = << >>
  /\ args' = [call |-> call, c |-> c]
  /\ ret' = r
  /\ UNCHANGED <<restVars, thisTx, thisBlock>>

CheckInputAsync ==
  \E c \in InputCalls :
    InputCall("checkInputAsync", c,
              [where |-> checkInputAsync(thisTx, c).where,
               result |-> IF checkInputAsync(thisTx, c).error = "none"
                            THEN "returns" ELSE "throws",
               error |-> checkInputAsync(thisTx, c).error])

VerifyInput ==
  \E c \in InputCalls : InputCall("verifyInput", c, verifyInput(thisTx, c))

VerifyInputAsync ==
  \E c \in InputCalls :
    InputCall("verifyInputAsync", c, verifyInputAsync(thisTx, c))

NextVerify == CheckInputAsync \/ VerifyInput \/ VerifyInputAsync

SpecVerify == InitVerify /\ [][NextVerify]_vars

\* verifyInputAsync was called with the arguments args.c.
VerifiedAsync == args # << >> /\ args.call = "verifyInputAsync"

\* false exactly for a ScriptError, every other error thrown on, and the
\* verdict of verifyInput.
VerdictAsClaimed ==
  /\ ret.result = "false" <=> checkInput(thisTx, args.c).error = "ScriptError"
  /\ ret.result = "throws" <=>
       checkInput(thisTx, args.c).error \in {"AssertionError", "Error"}
  /\ ret.result = "throws" => ret.error = checkInput(thisTx, args.c).error
  /\ ret.result = verifyInput(thisTx, args.c).result
  /\ ret.error = verifyInput(thisTx, args.c).error

(***************************************************************************)
(* C28: verifyInputAsync(index, coin, flags, pool) verifies the input on   *)
(* the worker pool when a pool is given and synchronously when none is     *)
(* given, exactly as checkInputAsync does; it returns false if and only if *)
(* that verification raises a ScriptError, and rethrows any other error;   *)
(* its verdict always equals that of verifyInput.                          *)
(***************************************************************************)
C28_VerifyInputAsync ==
  VerifiedAsync =>
    /\ ret.where = checkInputAsync(thisTx, args.c).where
    /\ VerdictAsClaimed

\* What holds of the code: the verdict part, of a verification that is
\* always run by the caller.
C28_VerdictOnly ==
  VerifiedAsync =>
    /\ ret.where \in {"none", "local"}
    /\ VerdictAsClaimed

\* verifyInputAsync was given a pool and an input whose script verifies: it
\* returned true, and the script was verified by the caller, not on the pool.
C28_Witness ==
  /\ VerifiedAsync
  /\ args.c.pool
  /\ args.c.coin
  /\ args.c.index < thisTx.inputs
  /\ ~args.c.poolFails
  /\ ret.result = "true"
  /\ ret.where = "local"
  /\ checkInputAsync(thisTx, args.c).where = "pool"

====
